---- MODULE Spec2Model ----
(***************************************************************************)
(* The web service of the generator controller (genwifiserver.cpp):        *)
(* process_web() and the routines it calls, as a state machine.  The       *)
(* program's globals are the variables; one call of process_web() is one   *)
(* step.  What a call reads from its surroundings (the power inputs, the   *)
(* status the WiFi module reports, the client the server hands over and    *)
(* the lines that client sent, the result of the outbound connect) is      *)
(* drawn from small sets.                                                  *)
(***************************************************************************)
EXTENDS Integers, Sequences, FiniteSets

VARIABLES
    web_status,          \* genwifiserver.cpp:71-73
    processing_web,      \* genwifiserver.cpp:505, the anti-recursion flag
    connect_attempts,    \* genwifiserver.cpp:506
    next_connect_time,   \* genwifiserver.cpp:84
    wifi_connects, wifi_connectfails, wifi_disconnects, wifi_resets,  \* :93
    clients,             \* genwifiserver.cpp:86-90, the visitor table
    current_client,      \* genwifiserver.cpp:91, a slot index (-1: not yet set)
    requests_processed,  \* genwifiserver.cpp:92
    delayed_response,    \* genwifiserver.cpp:81
    delayed_sendtime,    \* genwifiserver.cpp:82
    button_webpushed,    \* generator.h:122, the set of indices whose flag is set
    ifttt_do_trigger,    \* generator.h:123
    now,                 \* now(), seconds
    millis,              \* millis(), milliseconds, unsigned 32 bit
    last_poweron_time,   \* generator.h:136
    logfile_hdr,         \* generator.h:139, the header of the event log
    logfile,             \* generator.h:140, the entries of the event log
    appended,            \* every entry log_event() was given, in order
    client,              \* genwifiserver.cpp:67, the connection of the WiFiClient object
    lcdbuf,              \* generator.h:133, a row of the display
    pc,                  \* where an interrupted outer call of process_web() stands
    wr,                  \* genwifiserver.cpp:97-121, the write loop step by step
    call                 \* what the latest step did, if it was a call of process_web()

vars == << web_status, processing_web, connect_attempts, next_connect_time,
           wifi_connects, wifi_connectfails, wifi_disconnects, wifi_resets,
           clients, current_client, requests_processed, delayed_response,
           delayed_sendtime, button_webpushed, ifttt_do_trigger, now, millis,
           last_poweron_time, logfile_hdr, logfile, appended, client, lcdbuf, pc, wr, call >>

(***************************************************************************)
(* Program constants.                                                      *)
(***************************************************************************)
CONNECT_DELAY_SECS == 10
MAX_CONNECT_ATTEMPTS == 3
DELAYED_RSP_MSEC == 1000
POWER_ON_WEB_DELAY_SECS == 120
NUM_BUTTONS == 7
INT_MAX == 2147483647
ACTION_PASSWORD == "password"
MAXLINE == 500

(***************************************************************************)
(* millis() and delayed_sendtime are unsigned long, 32 bits wide on the    *)
(* target.  A value u of that type is kept as u - 2^31, which fits the     *)
(* checker's integers and keeps the order: U32Min stands for 0 and U32Max  *)
(* for 2^32 - 1.  U32Add is the addition of the type, modulo 2^32.         *)
(***************************************************************************)
U32Max == 2147483647
U32Min == (-U32Max) - 1
U32(n) == U32Min + n
U32Add(u, d) == IF u > U32Max - d THEN U32Min + (d - (U32Max - u) - 1) ELSE u + d

(***************************************************************************)
(* Bounds of the model.  The table has 25 slots in the source              *)
(* (genwifiserver.cpp:62); the model runs it with MAX_IP_ADDRESSES slots   *)
(* and one more peer address than slots, so that it fills and evicts.      *)
(***************************************************************************)
MAX_IP_ADDRESSES == 2
MaxCount == 3         \* a visit count grows no further than this
MaxRequests == 2      \* requests_processed grows no further than this
MaxWifiEvents == 3    \* connects + connect failures + disconnects
MaxNow == 145         \* now() grows no further than this
MaxMsTicks == 3       \* millis() advances at most this many times
LogMax == 3           \* log_max_entries (generator.h:141), the size of the ring
MaxAppends == 4       \* log_event() is called at most this many times
LcdCols == 3          \* characters in a row of the display (20 in generator.h:133)

NumPeers == MAX_IP_ADDRESSES + 1
SecStep == CONNECT_DELAY_SECS \div 2
MsStep == DELAYED_RSP_MSEC \div 2
Now0 == POWER_ON_WEB_DELAY_SECS + SecStep
Millis0 == {U32(0), U32Max - DELAYED_RSP_MSEC}   \* 0 and 2^32 - 1 - DELAYED_RSP_MSEC

Slots == 0 .. (MAX_IP_ADDRESSES - 1)
NoAddr == 0                   \* a default-constructed IPAddress, 0.0.0.0
Peers == 1 .. NumPeers        \* the addresses requests come from

(***************************************************************************)
(* genwifiserver.cpp:71-79, the enumerations.                              *)
(***************************************************************************)
WEB_NOT_CONNECTED == "WEB_NOT_CONNECTED"
WEB_AWAITING_CONNECTION == "WEB_AWAITING_CONNECTION"
WEB_AWAITING_CLIENT == "WEB_AWAITING_CLIENT"
WEB_PROCESSING_REQUEST == "WEB_PROCESSING_REQUEST"

request_type_t == {"REQ_UNKNOWN", "REQ_ROOT", "REQ_VISITORS", "REQ_LOG",
                   "REQ_PUSHBUTTON", "REQ_SETPASS", "REQ_FAVICON", "REQ_BUTTONIMAGE"}
response_type_t == {"RSP_UNKNOWN", "RSP_STATUS", "RSP_VISITORS", "RSP_LOG",
                    "RSP_FAVICON", "RSP_BUTTONIMAGE", "RSP_ASKPASS", "RSP_NONE"}

\* What WiFi.status() can report, by the three cases the code tells apart
\* (genwifiserver.cpp:43-56, 551-571).
WL_CONNECTED == "WL_CONNECTED"
WL_IDLE_STATUS == "WL_IDLE_STATUS"
WL_CONNECT_FAILED == "WL_CONNECT_FAILED"
WLStatus == {WL_CONNECTED, WL_IDLE_STATUS, WL_CONNECT_FAILED}

(***************************************************************************)
(* A request as it sits in the client's input: the peer address and the    *)
(* lines sent.  A line is what the scanners make of it: k is the keyword   *)
(* pattern the line starts with (the method and path that scan_key         *)
(* matches, BUTTON=, PWD=, a blank line, or none of these), b the integer  *)
(* after BUTTON=, s the text after PWD=.  late: the lines after the blank  *)
(* line have not arrived when the header has been read.                    *)
(***************************************************************************)
\* x: for a line of more than MAXLINE - 1 bytes, what the scanners make of
\* the bytes after the first MAXLINE - 1; empty for any other line.
Line(k, b, s) == [k |-> k, b |-> b, s |-> s, x |-> << >>]
Long(l, excess) == [l EXCEPT !.x = << excess >>]
Blank == Line("BLANK", 0, "")
Other == Line("OTHER", 0, "")
Route(k) == Line(k, 0, "")
Button(b) == Line("BUTTON", b, "")
Pwd(s) == Line("PWD", 0, s)

GetRoutes == {"GET_ROOT", "GET_VISITORS", "GET_LOG", "GET_FAVICON", "GET_BUTTONIMAGE"}
Buttons == {0, NUM_BUTTONS - 1, NUM_BUTTONS}      \* the last one is out of range
Passwords == {ACTION_PASSWORD, "Password", "password1"}

\* readBytesUntil() gives the bytes before the line feed: the carriage return
\* alone for the blank line that ends the header.
nbytes(l) ==
    IF l.x # << >> THEN MAXLINE - 1
    ELSE IF l.k = "BLANK" THEN 1 ELSE 8

RECURSIVE available(_)
available(stream) ==
    IF stream = << >> THEN 0
    ELSE IF Head(stream).x # << >>
    THEN nbytes(Head(stream)) + available(Head(stream).x \o Tail(stream))
    ELSE nbytes(Head(stream)) + 1 + available(Tail(stream))

PushBodies ==
    { << >>, << Button(0) >>, << Button(NUM_BUTTONS - 1) >>, << Button(NUM_BUTTONS) >>,
      << Button(0), Button(NUM_BUTTONS - 1) >>, << Other, Button(0) >>,
      << Button(NUM_BUTTONS - 1), Button(NUM_BUTTONS) >>, << Other >> }
PassBodies ==
    { << >>, << Pwd(ACTION_PASSWORD) >>, << Pwd("Password") >>, << Pwd("password1") >>,
      << Pwd(ACTION_PASSWORD), Other >>, << Other, Pwd(ACTION_PASSWORD) >>,
      << Pwd("password1"), Pwd(ACTION_PASSWORD) >>,
      << Pwd(ACTION_PASSWORD), Pwd("Password") >>, << Other >> }

Streams ==
    { << Route(k), Other, Blank >> : k \in GetRoutes }
    \cup { << Other, Blank >>, << Route("GET_OTHER"), Blank >>, << Route("POST_OTHER"), Blank >> }
    \cup { << Route("POST_PUSHBUTTON"), Blank >> \o b : b \in PushBodies }
    \cup { << Route("POST_SETPASS"), Blank >> \o b : b \in PassBodies }
    \cup { << Route("POST_SETPASS"), Route("POST_PUSHBUTTON"), Blank, Button(0) >>,
           << Route("POST_PUSHBUTTON"), Route("POST_SETPASS"), Blank, Pwd(ACTION_PASSWORD) >>,
           << Route("POST_PUSHBUTTON"), Button(0), Blank, Button(NUM_BUTTONS - 1) >> }

\* gone: the peer has closed its end by the time the request is read.
Request(ip, lines, late) == [ip |-> ip, lines |-> lines, late |-> late, gone |-> FALSE]
Hangup(r) == [r EXCEPT !.gone = TRUE]
Requests(peers) ==
    { Request(ip, l, FALSE) : ip \in peers, l \in Streams }
    \cup { Request(ip, << Route("POST_PUSHBUTTON"), Blank, Button(0) >>, TRUE) : ip \in peers }

(***************************************************************************)
(* The event log (generator.h:67-93, 139-141): a ring of log_max_entries    *)
(* entries and its header.  An entry is kept as its event type.            *)
(***************************************************************************)
EV_STARTUP == "EV_STARTUP"
EV_UTIL_FAIL == "EV_UTIL_FAIL"
EV_POWER_BACK == "EV_POWER_BACK"
EV_IFTTT_SENDING == "EV_IFTTT_SENDING"
EV_IFTTT_SENT == "EV_IFTTT_SENT"
EV_IFTTT_FAILED == "EV_IFTTT_FAILED"

EV_WIFI_RESET == "EV_WIFI_RESET"
EV_WIFI_NOCONNECT == "EV_WIFI_NOCONNECT"

NoEntry == [event_type |-> "-"]
EmptyLog(k) == [num_entries |-> 0, newest |-> k, oldest |-> (k + 1) % LogMax]

\* log_event(): the entry goes into the slot after newest, which becomes
\* newest; num_entries grows up to log_max_entries, and from then on oldest
\* moves on by one.
log_event(g, event_type) ==
    LET hdr == g.logfile_hdr
        slot == (hdr.newest + 1) % LogMax
        full == hdr.num_entries >= LogMax
    IN [g EXCEPT !.logfile[slot] = [event_type |-> event_type],
                 !.logfile_hdr = [num_entries |-> IF full THEN LogMax ELSE hdr.num_entries + 1,
                                  newest |-> slot,
                                  oldest |-> IF full THEN (hdr.oldest + 1) % LogMax
                                             ELSE hdr.oldest],
                 !.appended = Append(@, [event_type |-> event_type])]

(***************************************************************************)
(* The record of a call of process_web(): the status WiFi.status()         *)
(* reported to it, the request of the client it served, the type it gave   *)
(* that request, the address whose record it replaced in the table, the    *)
(* response it generated and the network primitives it issued; log: the    *)
(* entries the log page listed and whether the listing came to an end;     *)
(* out: how the outbound request of a notification went; unread: the      *)
(* input generate_response() found unread; page: the text the status page *)
(* shows for the row of the display.  "-", NoClient and NoAddr where the   *)
(* call did not get that far.                                              *)
(***************************************************************************)
NoClient == Request(NoAddr, << >>, FALSE)

(***************************************************************************)
(* The WiFiClient object client (genwifiserver.cpp:67): open, the          *)
(* connection is established and neither end has closed it; unread, the    *)
(* lines received and not read.  connected() is true while the connection  *)
(* is open or unread data is left, as the calls of lines 388-390 take it;  *)
(* stop() closes the connection and discards what is unread.               *)
(***************************************************************************)
NoConnection == [open |-> FALSE, unread |-> << >>]
connected(c) == c.open \/ c.unread # << >>
stop(c) == NoConnection
(***************************************************************************)
(* client_write() (genwifiserver.cpp:97-121), step by step.  One job is    *)
(* the sequence of calls of client_write() that sends a response, or the   *)
(* request of a notification, which is followed by the loop that reads the *)
(* answer (lines 486-489).  wr holds: pc, the place in the code; kind,     *)
(* "response" or "notification"; todo, the lengths of the buffers not yet  *)
(* passed to client_write(); length and buf, the variables of the loop,    *)
(* buf counted from the start of its buffer; base, the place of that       *)
(* buffer in the job; total, the bytes of the job; wire, the bytes the     *)
(* transport accepted; inorder, each of them was the next byte of the job; *)
(* checked, connected() was tested and true since the last write; frozen,  *)
(* the value of wire when connected() was first found false, -1 before;    *)
(* last, the latest call of write().                                       *)
(***************************************************************************)
CHUNKSIZE == 500

NoWrite ==
    [pc |-> "idle", kind |-> "-", todo |-> << >>, length |-> 0, buf |-> 0, base |-> 0,
     total |-> 0, wire |-> 0, inorder |-> TRUE, checked |-> FALSE, frozen |-> -1,
     last |-> [asked |-> 0, done |-> 0, checked |-> TRUE]]

RECURSIVE SumLengths(_)
SumLengths(lens) == IF lens = << >> THEN 0 ELSE Head(lens) + SumLengths(Tail(lens))

\* the caller goes on to its next buffer, or to what follows the last one
next_buffer(w) ==
    IF w.todo # << >>
    THEN [w EXCEPT !.pc = "while", !.length = Head(w.todo), !.todo = Tail(w.todo),
                   !.buf = 0, !.base = w.base + w.buf + w.length, !.checked = FALSE]
    ELSE [w EXCEPT !.pc = IF w.kind = "notification" THEN "drain" ELSE "stop",
                   !.length = 0, !.buf = 0, !.base = w.base + w.buf + w.length,
                   !.checked = FALSE]

\* genwifiserver.cpp:99 and 121, the test of the loop and the return of true
client_write_while(w) ==
    IF w.length > 0 THEN [w EXCEPT !.pc = "connected"] ELSE next_buffer(w)

\* genwifiserver.cpp:101-104, the test of connected() and the return of false
client_write_connected(w, c) ==
    IF ~connected(c)
    THEN next_buffer([w EXCEPT !.frozen = IF @ < 0 THEN w.wire ELSE @])
    ELSE [w EXCEPT !.pc = "write", !.checked = TRUE]

\* client_write_write() moving buf on by what it asked for
client_write_write_asked(w, bytes_done) ==
    LET asked == IF w.length > CHUNKSIZE THEN CHUNKSIZE ELSE w.length IN
    [w EXCEPT !.pc = "while",
              !.wire = @ + bytes_done,
              !.inorder = @ /\ (bytes_done = 0 \/ w.base + w.buf = w.wire),
              !.last = [asked |-> asked, done |-> bytes_done, checked |-> w.checked],
              !.checked = FALSE,
              !.length = @ - asked,
              !.buf = @ + asked]

\* genwifiserver.cpp:105-119, the write and the two updates
client_write_write(w, bytes_done) ==
    LET asked == IF w.length > CHUNKSIZE THEN CHUNKSIZE ELSE w.length IN
    [w EXCEPT !.pc = "while",
              !.wire = @ + bytes_done,
              !.inorder = @ /\ (bytes_done = 0 \/ w.base + w.buf = w.wire),
              !.last = [asked |-> asked, done |-> bytes_done, checked |-> w.checked],
              !.checked = FALSE,
              !.length = @ - bytes_done,
              !.buf = @ + bytes_done]

\* What write() may return when asked for so many bytes: all of them, half of
\* them, or none; none when the connection is down.
Accepts(c, asked) == IF c.open THEN {0, asked \div 2, asked} ELSE {0}

NoCall == [active |-> FALSE, wl |-> "-", cl |-> NoClient, req |-> "-",
           evicted |-> NoAddr, rsp |-> "-", net |-> {},
           log |-> [rows |-> << >>, ends |-> TRUE], out |-> "-",
           unread |-> << >>, page |-> << >>]
NewCall == [NoCall EXCEPT !.active = TRUE]
Issue(g, prims) == [g EXCEPT !.call.net = @ \cup prims]

(***************************************************************************)
(* add_IP_address(): the scan of the table, slot by slot.                  *)
(***************************************************************************)
\* scan_clients() taking the last of the records of minimum count
RECURSIVE scan_clients_lastmin(_, _, _, _, _, _)
scan_clients_lastmin(tab, addr, ndx, empty_ndx, min_ndx, min_count) ==
    IF ndx >= MAX_IP_ADDRESSES
    THEN [found |-> FALSE, ndx |-> IF empty_ndx >= 0 THEN empty_ndx ELSE min_ndx]
    ELSE IF tab[ndx].ip_address = addr
    THEN [found |-> TRUE, ndx |-> ndx]
    ELSE IF tab[ndx].count = 0
    THEN scan_clients_lastmin(tab, addr, ndx + 1, ndx, min_ndx, min_count)
    ELSE IF tab[ndx].count <= min_count
    THEN scan_clients_lastmin(tab, addr, ndx + 1, empty_ndx, ndx, tab[ndx].count)
    ELSE scan_clients_lastmin(tab, addr, ndx + 1, empty_ndx, min_ndx, min_count)

RECURSIVE scan_clients(_, _, _, _, _, _)
scan_clients(tab, addr, ndx, empty_ndx, min_ndx, min_count) ==
    IF ndx >= MAX_IP_ADDRESSES
    THEN [found |-> FALSE, ndx |-> IF empty_ndx >= 0 THEN empty_ndx ELSE min_ndx]
    ELSE IF tab[ndx].ip_address = addr
    THEN [found |-> TRUE, ndx |-> ndx]
    ELSE IF tab[ndx].count = 0
    THEN scan_clients(tab, addr, ndx + 1, ndx, min_ndx, min_count)
    ELSE IF tab[ndx].count < min_count
    THEN scan_clients(tab, addr, ndx + 1, empty_ndx, ndx, tab[ndx].count)
    ELSE scan_clients(tab, addr, ndx + 1, empty_ndx, min_ndx, min_count)

\* add_IP_address() without the test for an address already in the table
add_IP_address_dup(tab, addr) ==
    LET r == scan_clients(tab, -1, 0, -1, -1, INT_MAX) IN
    [clients |-> [tab EXCEPT ![r.ndx] =
                    [ip_address |-> addr, count |-> 1, gave_password |-> FALSE]],
     ndx |-> r.ndx]

\* add_IP_address() with the new record keeping the gave_password of the
\* record it replaces
add_IP_address_keeps(tab, addr) ==
    LET r == scan_clients(tab, addr, 0, -1, -1, INT_MAX) IN
    IF r.found
    THEN [clients |-> tab, ndx |-> r.ndx]
    ELSE [clients |-> [tab EXCEPT ![r.ndx] =
                         [ip_address |-> addr, count |-> 1,
                          gave_password |-> tab[r.ndx].gave_password]],
          ndx |-> r.ndx]

\* add_IP_address() starting the record anew at every request
add_IP_address_anew(tab, addr) ==
    LET r == scan_clients(tab, addr, 0, -1, -1, INT_MAX) IN
    [clients |-> [tab EXCEPT ![r.ndx] =
                    [ip_address |-> addr, count |-> 1, gave_password |-> FALSE]],
     ndx |-> r.ndx]

add_IP_address(tab, addr) ==
    LET r == scan_clients(tab, addr, 0, -1, -1, INT_MAX) IN
    IF r.found
    THEN [clients |-> tab, ndx |-> r.ndx]
    ELSE [clients |-> [tab EXCEPT ![r.ndx] =
                         [ip_address |-> addr, count |-> 1, gave_password |-> FALSE]],
          ndx |-> r.ndx]

(***************************************************************************)
(* queue_button_push(), check_password(), get_request_line().              *)
(***************************************************************************)
queue_button_push(g, button, ms) ==
    [g EXCEPT !.button_webpushed = @ \cup {button},
              !.delayed_response = TRUE,
              !.delayed_sendtime = U32Add(ms, DELAYED_RSP_MSEC)]

check_password(ptr) == ptr = ACTION_PASSWORD

\* ok: the value returned (nbytes > 1); an empty input times out with 0 bytes.
get_request_line(stream) ==
    IF stream = << >>
    THEN [ok |-> FALSE, line |-> Blank, rest |-> << >>]
    ELSE [ok |-> nbytes(Head(stream)) > 1,
          line |-> [Head(stream) EXCEPT !.x = << >>],
          rest |-> Head(stream).x \o Tail(stream)]

(***************************************************************************)
(* generate_response(): the response is written to the client, the input   *)
(* is drained, the connection is stopped and the server polls again.       *)
(***************************************************************************)
\* log_walk() going up from ndx instead of down
RECURSIVE log_walk_up(_, _, _, _)
log_walk_up(hdr, log, ndx, fuel) ==
    IF fuel = 0 THEN [rows |-> << >>, ends |-> FALSE]
    ELSE IF ndx = hdr.oldest THEN [rows |-> << log[ndx] >>, ends |-> TRUE]
    ELSE LET next == IF ndx + 1 >= LogMax THEN 0 ELSE ndx + 1
             w == log_walk_up(hdr, log, next, fuel - 1)
         IN [rows |-> << log[ndx] >> \o w.rows, ends |-> w.ends]

\* genwifiserver.cpp:352-358, the loop from ndx down to oldest; it is given
\* up after fuel entries, more than the ring holds
RECURSIVE log_walk(_, _, _, _)
log_walk(hdr, log, ndx, fuel) ==
    IF fuel = 0 THEN [rows |-> << >>, ends |-> FALSE]
    ELSE IF ndx = hdr.oldest THEN [rows |-> << log[ndx] >>, ends |-> TRUE]
    ELSE LET next == IF ndx - 1 < 0 THEN LogMax - 1 ELSE ndx - 1
             w == log_walk(hdr, log, next, fuel - 1)
         IN [rows |-> << log[ndx] >> \o w.rows, ends |-> w.ends]

\* render_log() without the test of num_entries
render_log_always(hdr, log) == log_walk(hdr, log, hdr.newest, LogMax + 1)

\* genwifiserver.cpp:350-359, the entries the log page lists
render_log(hdr, log) ==
    IF hdr.num_entries > 0
    THEN log_walk(hdr, log, hdr.newest, LogMax + 1)
    ELSE [rows |-> << >>, ends |-> TRUE]

(***************************************************************************)
(* expand_arrows_and_blanks() (genwifiserver.cpp:131-148).  A string is a   *)
(* sequence of characters; outmsg is the buffer, dst the number of         *)
(* characters before the place written next.  strcpy() writes the          *)
(* characters and the terminating NUL; the string returned ends before     *)
(* the first NUL.                                                          *)
(***************************************************************************)
NUL == "NUL"
DOWNARROW == "DOWNARROW"
UPARROW == "UPARROW"
RIGHTARROW == "RIGHTARROW"
LEFTARROW == "LEFTARROW"
LeftArrowRef == << "&", "#", "8", "5", "9", "2", ";" >>
UpArrowRef == << "&", "#", "8", "5", "9", "3", ";" >>
RightArrowRef == << "&", "#", "8", "5", "9", "4", ";" >>
DownArrowRef == << "&", "#", "8", "5", "9", "5", ";" >>
Nbsp == << "&", "n", "b", "s", "p", ";" >>

strcpy(outmsg, dst, str) ==
    LET end == dst + Len(str) + 1
        len == IF Len(outmsg) > end THEN Len(outmsg) ELSE end
    IN [i \in 1 .. len |-> CASE i <= dst -> outmsg[i]
                              [] i < end -> str[i - dst]
                              [] i = end -> NUL
                              [] OTHER -> outmsg[i]]

RECURSIVE c_string(_)
c_string(outmsg) ==
    IF outmsg = << >> \/ Head(outmsg) = NUL THEN << >>
    ELSE << Head(outmsg) >> \o c_string(Tail(outmsg))

\* genwifiserver.cpp:135-146, the loop and the final NUL
RECURSIVE expand(_, _, _)
expand(src, outmsg, dst) ==
    IF src = << >> THEN strcpy(outmsg, dst, << >>)
    ELSE LET c == Head(src) IN
         CASE c = LEFTARROW -> expand(Tail(src), strcpy(outmsg, dst, LeftArrowRef), dst + 6)
           [] c = UPARROW -> expand(Tail(src), strcpy(outmsg, dst, UpArrowRef), dst + 6)
           [] c = RIGHTARROW -> expand(Tail(src), strcpy(outmsg, dst, RightArrowRef), dst + 6)
           [] c = DOWNARROW -> expand(Tail(src), strcpy(outmsg, dst, DownArrowRef), dst + 6)
           [] c = " " -> expand(Tail(src), strcpy(outmsg, dst, Nbsp), dst + 5)
           [] OTHER -> expand(Tail(src), strcpy(outmsg, dst, << c >>), dst + 1)

expand_arrows_and_blanks(msg) == c_string(expand(msg, << >>, 0))

\* genwifiserver.cpp:388, the input is read until none is left
drain(c) == IF connected(c) /\ available(c.unread) > 0 THEN [c EXCEPT !.unread = << >>] ELSE c

\* generate_response() without the stop() of line 390
generate_response_nostop(g, response_type) ==
    LET g1 == CASE response_type = "RSP_LOG" ->
                     [g EXCEPT !.call.log = render_log(g.logfile_hdr, g.logfile)]
                [] response_type = "RSP_STATUS" ->
                     [g EXCEPT !.call.page = expand_arrows_and_blanks(g.lcdbuf)]
                [] OTHER -> g
    IN [g1 EXCEPT !.call.rsp = response_type,
                  !.call.unread = g.client.unread,
                  !.call.net = @ \cup {"client.write", "client.read"},
                  !.client = drain(g.client),
                  !.web_status = WEB_AWAITING_CLIENT]

\* genwifiserver.cpp:267-391
generate_response(g, response_type) ==
    LET g1 == CASE response_type = "RSP_LOG" ->
                     [g EXCEPT !.call.log = render_log(g.logfile_hdr, g.logfile)]
                [] response_type = "RSP_STATUS" ->
                     [g EXCEPT !.call.page = expand_arrows_and_blanks(g.lcdbuf)]
                [] OTHER -> g
        c == drain(g.client)
    IN [g1 EXCEPT !.call.rsp = response_type,
                  !.call.unread = g.client.unread,
                  !.call.net = @ \cup {"client.write", "client.read"}
                                 \cup (IF connected(c) THEN {"client.stop"} ELSE {}),
                  !.client = IF connected(c) THEN stop(c) ELSE c,
                  !.web_status = WEB_AWAITING_CLIENT]

(***************************************************************************)
(* process_client_request(): the header loop, the count, the choice of     *)
(* the response, the bodies of the two POST routes.                        *)
(***************************************************************************)
\* genwifiserver.cpp:411-420, one line of the header
classify(l, request_type) ==
    CASE l.k = "GET_ROOT" -> "REQ_ROOT"
      [] l.k = "GET_VISITORS" -> "REQ_VISITORS"
      [] l.k = "GET_LOG" -> "REQ_LOG"
      [] l.k = "GET_FAVICON" -> "REQ_FAVICON"
      [] l.k = "GET_BUTTONIMAGE" -> "REQ_BUTTONIMAGE"
      [] l.k = "POST_PUSHBUTTON" -> "REQ_PUSHBUTTON"
      [] l.k = "POST_SETPASS" -> "REQ_SETPASS"
      [] OTHER -> request_type

\* genwifiserver.cpp:407-420
RECURSIVE read_header(_, _)
read_header(stream, request_type) ==
    LET rd == get_request_line(stream) IN
    IF rd.ok
    THEN read_header(rd.rest, classify(rd.line, request_type))
    ELSE [req |-> request_type, rest |-> rd.rest]

\* pushbutton_body() without the test of gave_password
RECURSIVE pushbutton_body_noauth(_, _, _)
pushbutton_body_noauth(x, stream, ms) ==
    LET rd == get_request_line(stream) IN
    IF ~rd.ok THEN x
    ELSE IF rd.line.k = "BUTTON" /\ rd.line.b \in 0 .. (NUM_BUTTONS - 1)
    THEN pushbutton_body_noauth([g |-> queue_button_push(x.g, rd.line.b, ms),
                                 rsp |-> "RSP_NONE"], rd.rest, ms)
    ELSE pushbutton_body_noauth(x, rd.rest, ms)

\* genwifiserver.cpp:445-454; x is [g, rsp]
RECURSIVE pushbutton_body(_, _, _)
pushbutton_body(x, stream, ms) ==
    LET rd == get_request_line(stream) IN
    IF ~rd.ok THEN x
    ELSE IF rd.line.k = "BUTTON" /\ rd.line.b \in 0 .. (NUM_BUTTONS - 1)
    THEN IF x.g.clients[x.g.current_client].gave_password
         THEN pushbutton_body([g |-> queue_button_push(x.g, rd.line.b, ms),
                               rsp |-> "RSP_NONE"], rd.rest, ms)
         ELSE pushbutton_body([x EXCEPT !.rsp = "RSP_ASKPASS"], rd.rest, ms)
    ELSE pushbutton_body(x, rd.rest, ms)

\* the setpass branch withdrawing the mark when the value does not match
RECURSIVE setpass_body_revokes(_, _)
setpass_body_revokes(x, stream) ==
    LET rd == get_request_line(stream) IN
    IF ~rd.ok THEN x
    ELSE IF rd.line.k = "PWD" /\ check_password(rd.line.s)
    THEN setpass_body_revokes([g |-> [x.g EXCEPT !.clients[x.g.current_client].gave_password = TRUE],
                               rsp |-> "RSP_STATUS"], rd.rest)
    ELSE setpass_body_revokes([g |-> [x.g EXCEPT !.clients[x.g.current_client].gave_password = FALSE],
                               rsp |-> "RSP_ASKPASS"], rd.rest)

\* genwifiserver.cpp:457-463; x is [g, rsp]
RECURSIVE setpass_body(_, _)
setpass_body(x, stream) ==
    LET rd == get_request_line(stream) IN
    IF ~rd.ok THEN x
    ELSE IF rd.line.k = "PWD" /\ check_password(rd.line.s)
    THEN setpass_body([g |-> [x.g EXCEPT !.clients[x.g.current_client].gave_password = TRUE],
                       rsp |-> "RSP_STATUS"], rd.rest)
    ELSE setpass_body([x EXCEPT !.rsp = "RSP_ASKPASS"], rd.rest)

\* What the loops of lines 445 and 458 leave unread: they end at a blank line
\* or when nothing is left.
RECURSIVE body_rest(_)
body_rest(stream) ==
    LET rd == get_request_line(stream) IN
    IF rd.ok THEN body_rest(rd.rest) ELSE rd.rest

\* genwifiserver.cpp:393-465
process_client_request(g, r, ms) ==
    LET a == add_IP_address(g.clients, r.ip)
        g1 == [g EXCEPT !.clients = a.clients, !.current_client = a.ndx,
                        !.call.cl = r,
                        !.call.evicted = IF g.clients[a.ndx].ip_address # r.ip
                                            /\ g.clients[a.ndx].count > 0
                                         THEN g.clients[a.ndx].ip_address ELSE NoAddr,
                        !.call.net = @ \cup {"client.read"}]
        h == read_header(r.lines, "REQ_UNKNOWN")
        g2 == IF h.req # "REQ_FAVICON"
              THEN [g1 EXCEPT !.clients[a.ndx].count = @ + 1,
                              !.requests_processed = @ + 1,
                              !.call.req = h.req]
              ELSE [g1 EXCEPT !.call.req = h.req]
        x0 == [g |-> g2, rsp |-> "RSP_UNKNOWN"]
        x == CASE h.req = "REQ_ROOT" -> [x0 EXCEPT !.rsp = "RSP_STATUS"]
               [] h.req = "REQ_BUTTONIMAGE" -> [x0 EXCEPT !.rsp = "RSP_BUTTONIMAGE"]
               [] h.req = "REQ_LOG" -> [x0 EXCEPT !.rsp = "RSP_LOG"]
               [] h.req = "REQ_VISITORS" -> [x0 EXCEPT !.rsp = "RSP_VISITORS"]
               [] h.req = "REQ_FAVICON" -> [x0 EXCEPT !.rsp = "RSP_FAVICON"]
               [] h.req = "REQ_PUSHBUTTON" ->
                    IF (IF r.late THEN 0 ELSE available(h.rest)) > 2
                    THEN pushbutton_body(x0, h.rest, ms)
                    ELSE x0
               [] h.req = "REQ_SETPASS" -> setpass_body(x0, h.rest)
               [] OTHER -> x0
        left == CASE r.late -> << >>
                  [] h.req = "REQ_PUSHBUTTON" /\ available(h.rest) > 2 -> body_rest(h.rest)
                  [] h.req = "REQ_SETPASS" -> body_rest(h.rest)
                  [] OTHER -> h.rest
        y == [x.g EXCEPT !.client = [open |-> ~r.gone, unread |-> left]]
    IN  IF x.rsp # "RSP_NONE"
        THEN generate_response(y, x.rsp)
        ELSE [y EXCEPT !.call.rsp = "RSP_NONE"]

(***************************************************************************)
(* ifttt_send_trigger(): the outbound notification.  cok: connect()        *)
(* succeeded; xfer: the connection stayed up until the request had been    *)
(* written.  client_write() returns false when it finds the connection     *)
(* down, and client_printf() drops that value (genwifiserver.cpp:97-129).  *)
(***************************************************************************)
ifttt_send_trigger(g, cok, xfer) ==
    LET g1 == log_event(Issue(g, {"client.stop"}), EV_IFTTT_SENDING) IN
    IF cok
    THEN log_event([Issue(g1, {"client.connect", "client.write", "client.read"})
                       EXCEPT !.call.out = IF xfer THEN "transferred" ELSE "dropped"],
                   EV_IFTTT_SENT)
    ELSE log_event([Issue(g1, {"client.connect"}) EXCEPT !.call.out = "refused"],
                   EV_IFTTT_FAILED)

(***************************************************************************)
(* process_web(): the four cases of the switch, then the whole call.       *)
(* in: what the call reads: pw (HAVE_POWER), wl (WiFi.status()), cl (the   *)
(* request of the client server.available() returns, NoClient if none),    *)
(* cok (the outbound connect succeeds), xfer (the outbound connection      *)
(* stays up until the request has been written).                           *)
(***************************************************************************)
Input(pw, wl, cl, cok, xfer) ==
    [pw |-> pw, wl |-> wl, cl |-> cl, cok |-> cok, xfer |-> xfer]

\* web_not_connected() without the test of the retry time
web_not_connected_nowait(g, nowv) ==
    [Issue(g, {"WiFi.begin"}) EXCEPT !.connect_attempts = @ + 1,
                                     !.web_status = WEB_AWAITING_CONNECTION]

\* genwifiserver.cpp:517-548
web_not_connected(g, nowv) ==
    IF nowv >= g.next_connect_time
    THEN [Issue(g, {"WiFi.begin"}) EXCEPT !.connect_attempts = @ + 1,
                                          !.web_status = WEB_AWAITING_CONNECTION]
    ELSE g

\* web_awaiting_connection() resetting the module only above MAX_CONNECT_ATTEMPTS
web_awaiting_connection_late(g, wl, nowv) ==
    LET g1 == [Issue(g, {"WiFi.status"}) EXCEPT !.call.wl = wl] IN
    CASE wl = WL_CONNECTED ->
           [Issue(g1, {"server.begin"}) EXCEPT !.wifi_connects = @ + 1,
                                               !.connect_attempts = 0,
                                               !.web_status = WEB_AWAITING_CLIENT]
      [] wl = WL_IDLE_STATUS -> g1
      [] OTHER ->
           LET g2 == [g1 EXCEPT !.wifi_connectfails = @ + 1]
               g3 == IF g2.connect_attempts > MAX_CONNECT_ATTEMPTS
                     THEN [Issue(g2, {"wifi_reset"}) EXCEPT !.wifi_resets = @ + 1,
                                                            !.connect_attempts = 0]
                     ELSE g2
           IN [g3 EXCEPT !.next_connect_time = nowv + CONNECT_DELAY_SECS,
                         !.web_status = WEB_NOT_CONNECTED]

\* web_awaiting_connection() keeping the attempt counter when the network is joined
web_awaiting_connection_keeps(g, wl, nowv) ==
    LET g1 == [Issue(g, {"WiFi.status"}) EXCEPT !.call.wl = wl] IN
    CASE wl = WL_CONNECTED ->
           [Issue(g1, {"server.begin"}) EXCEPT !.wifi_connects = @ + 1,
                                               !.web_status = WEB_AWAITING_CLIENT]
      [] wl = WL_IDLE_STATUS -> g1
      [] OTHER ->
           LET g2 == [g1 EXCEPT !.wifi_connectfails = @ + 1]
               g3 == IF g2.connect_attempts >= MAX_CONNECT_ATTEMPTS
                     THEN [Issue(g2, {"wifi_reset"}) EXCEPT !.wifi_resets = @ + 1,
                                                            !.connect_attempts = 0]
                     ELSE g2
           IN [g3 EXCEPT !.next_connect_time = nowv + CONNECT_DELAY_SECS,
                         !.web_status = WEB_NOT_CONNECTED]

\* web_awaiting_connection() with the log_event() calls of lines 574 and 583
\* compiled in
web_awaiting_connection_logs(g, wl, nowv) ==
    LET g1 == [Issue(g, {"WiFi.status"}) EXCEPT !.call.wl = wl] IN
    CASE wl = WL_CONNECTED ->
           [Issue(g1, {"server.begin"}) EXCEPT !.wifi_connects = @ + 1,
                                               !.connect_attempts = 0,
                                               !.web_status = WEB_AWAITING_CLIENT]
      [] wl = WL_IDLE_STATUS -> g1
      [] OTHER ->
           LET g2 == log_event([g1 EXCEPT !.wifi_connectfails = @ + 1], EV_WIFI_NOCONNECT)
               g3 == IF g2.connect_attempts >= MAX_CONNECT_ATTEMPTS
                     THEN log_event([Issue(g2, {"wifi_reset"})
                                        EXCEPT !.wifi_resets = @ + 1,
                                               !.connect_attempts = 0],
                                    EV_WIFI_RESET)
                     ELSE g2
           IN [g3 EXCEPT !.next_connect_time = nowv + CONNECT_DELAY_SECS,
                         !.web_status = WEB_NOT_CONNECTED]

\* genwifiserver.cpp:550-588
web_awaiting_connection(g, wl, nowv) ==
    LET g1 == [Issue(g, {"WiFi.status"}) EXCEPT !.call.wl = wl] IN
    CASE wl = WL_CONNECTED ->
           [Issue(g1, {"server.begin"}) EXCEPT !.wifi_connects = @ + 1,
                                               !.connect_attempts = 0,
                                               !.web_status = WEB_AWAITING_CLIENT]
      [] wl = WL_IDLE_STATUS -> g1
      [] OTHER ->
           LET g2 == [g1 EXCEPT !.wifi_connectfails = @ + 1]
               g3 == IF g2.connect_attempts >= MAX_CONNECT_ATTEMPTS
                     THEN [Issue(g2, {"wifi_reset"}) EXCEPT !.wifi_resets = @ + 1,
                                                            !.connect_attempts = 0]
                     ELSE g2
           IN [g3 EXCEPT !.next_connect_time = nowv + CONNECT_DELAY_SECS,
                         !.web_status = WEB_NOT_CONNECTED]

\* web_awaiting_client() keeping the trigger flag when the send failed
web_awaiting_client_retries(g, in, nowv, ms) ==
    LET g1 == [Issue(g, {"WiFi.status"}) EXCEPT !.call.wl = in.wl] IN
    IF in.wl # WL_CONNECTED
    THEN [Issue(g1, {"wifi_reset"}) EXCEPT !.wifi_disconnects = @ + 1,
                                           !.wifi_resets = @ + 1,
                                           !.connect_attempts = 0,
                                           !.next_connect_time = nowv + CONNECT_DELAY_SECS,
                                           !.web_status = WEB_NOT_CONNECTED]
    ELSE LET g2 == Issue(g1, {"server.available"}) IN
         IF in.cl # NoClient
         THEN process_client_request([g2 EXCEPT !.web_status = WEB_PROCESSING_REQUEST],
                                     in.cl, ms)
         ELSE IF g2.ifttt_do_trigger
         THEN [ifttt_send_trigger(g2, in.cok, in.xfer) EXCEPT !.ifttt_do_trigger = ~in.cok]
         ELSE g2

\* web_awaiting_client() sending the notification whether or not a client waits
web_awaiting_client_sends(g, in, nowv, ms) ==
    LET g1 == [Issue(g, {"WiFi.status"}) EXCEPT !.call.wl = in.wl] IN
    IF in.wl # WL_CONNECTED
    THEN [Issue(g1, {"wifi_reset"}) EXCEPT !.wifi_disconnects = @ + 1,
                                           !.wifi_resets = @ + 1,
                                           !.connect_attempts = 0,
                                           !.next_connect_time = nowv + CONNECT_DELAY_SECS,
                                           !.web_status = WEB_NOT_CONNECTED]
    ELSE LET g2 == Issue(g1, {"server.available"})
             g3 == IF in.cl # NoClient
                   THEN process_client_request(
                            [g2 EXCEPT !.web_status = WEB_PROCESSING_REQUEST], in.cl, ms)
                   ELSE g2
         IN IF g3.ifttt_do_trigger
            THEN [ifttt_send_trigger(g3, in.cok, in.xfer) EXCEPT !.ifttt_do_trigger = FALSE]
            ELSE g3

\* web_awaiting_client() not counting the reset when the network is lost
web_awaiting_client_noreset(g, in, nowv, ms) ==
    LET g1 == [Issue(g, {"WiFi.status"}) EXCEPT !.call.wl = in.wl] IN
    IF in.wl # WL_CONNECTED
    THEN [Issue(g1, {"wifi_reset"}) EXCEPT !.wifi_disconnects = @ + 1,
                                           !.connect_attempts = 0,
                                           !.next_connect_time = nowv + CONNECT_DELAY_SECS,
                                           !.web_status = WEB_NOT_CONNECTED]
    ELSE LET g2 == Issue(g1, {"server.available"}) IN
         IF in.cl # NoClient
         THEN process_client_request([g2 EXCEPT !.web_status = WEB_PROCESSING_REQUEST],
                                     in.cl, ms)
         ELSE IF g2.ifttt_do_trigger
         THEN [ifttt_send_trigger(g2, in.cok, in.xfer) EXCEPT !.ifttt_do_trigger = FALSE]
         ELSE g2

\* genwifiserver.cpp:590-615
web_awaiting_client(g, in, nowv, ms) ==
    LET g1 == [Issue(g, {"WiFi.status"}) EXCEPT !.call.wl = in.wl] IN
    IF in.wl # WL_CONNECTED
    THEN [Issue(g1, {"wifi_reset"}) EXCEPT !.wifi_disconnects = @ + 1,
                                           !.wifi_resets = @ + 1,
                                           !.connect_attempts = 0,
                                           !.next_connect_time = nowv + CONNECT_DELAY_SECS,
                                           !.web_status = WEB_NOT_CONNECTED]
    ELSE LET g2 == Issue(g1, {"server.available"}) IN
         IF in.cl # NoClient
         THEN process_client_request([g2 EXCEPT !.web_status = WEB_PROCESSING_REQUEST],
                                     in.cl, ms)
         ELSE IF g2.ifttt_do_trigger
         THEN [ifttt_send_trigger(g2, in.cok, in.xfer) EXCEPT !.ifttt_do_trigger = FALSE]
         ELSE g2

\* web_processing_request() leaving delayed_response set when it responds
web_processing_request_keeps(g, ms) ==
    IF ms > g.delayed_sendtime
    THEN generate_response(g, "RSP_STATUS")
    ELSE g

\* the WEB_PROCESSING_REQUEST step sending a pending notification while it waits
web_processing_request_sends(g, ms) ==
    IF ms > g.delayed_sendtime
    THEN generate_response([g EXCEPT !.delayed_response = FALSE], "RSP_STATUS")
    ELSE IF g.ifttt_do_trigger
    THEN [ifttt_send_trigger(g, TRUE, TRUE) EXCEPT !.ifttt_do_trigger = FALSE]
    ELSE g

\* genwifiserver.cpp:617-624
web_processing_request(g, ms) ==
    IF ms > g.delayed_sendtime
    THEN generate_response([g EXCEPT !.delayed_response = FALSE], "RSP_STATUS")
    ELSE g

\* the condition of line 509 without the wait after power-on
web_enabled_atonce(g, in, nowv, lpt) ==
    in.pw /\ ~g.processing_web

\* genwifiserver.cpp:509, the condition under which a call does anything
web_enabled(g, in, nowv, lpt) ==
    in.pw /\ ~g.processing_web /\ nowv - lpt > POWER_ON_WEB_DELAY_SECS

\* genwifiserver.cpp:509-624, the call up to the statement that clears the flag
process_web_body(g, in, nowv, ms, lpt) ==
    IF web_enabled(g, in, nowv, lpt)
    THEN LET g1 == [g EXCEPT !.processing_web = TRUE] IN
         CASE g1.web_status = WEB_NOT_CONNECTED -> web_not_connected(g1, nowv)
           [] g1.web_status = WEB_AWAITING_CONNECTION ->
                web_awaiting_connection(g1, in.wl, nowv)
           [] g1.web_status = WEB_AWAITING_CLIENT -> web_awaiting_client(g1, in, nowv, ms)
           [] OTHER -> web_processing_request(g1, ms)
    ELSE g

\* genwifiserver.cpp:504-627
process_web(g, in, nowv, ms, lpt) ==
    [process_web_body(g, in, nowv, ms, lpt) EXCEPT !.processing_web = FALSE]

(***************************************************************************)
(* The globals as one record, and back.                                    *)
(***************************************************************************)
Globals ==
    [web_status |-> web_status, processing_web |-> processing_web,
     connect_attempts |-> connect_attempts, next_connect_time |-> next_connect_time,
     wifi_connects |-> wifi_connects, wifi_connectfails |-> wifi_connectfails,
     wifi_disconnects |-> wifi_disconnects, wifi_resets |-> wifi_resets,
     clients |-> clients, current_client |-> current_client,
     requests_processed |-> requests_processed, delayed_response |-> delayed_response,
     delayed_sendtime |-> delayed_sendtime, button_webpushed |-> button_webpushed,
     ifttt_do_trigger |-> ifttt_do_trigger,
     logfile_hdr |-> logfile_hdr, logfile |-> logfile, appended |-> appended,
     client |-> client, lcdbuf |-> lcdbuf, call |-> NewCall]

Store(t) ==
    /\ web_status' = t.web_status
    /\ processing_web' = t.processing_web
    /\ connect_attempts' = t.connect_attempts
    /\ next_connect_time' = t.next_connect_time
    /\ wifi_connects' = t.wifi_connects
    /\ wifi_connectfails' = t.wifi_connectfails
    /\ wifi_disconnects' = t.wifi_disconnects
    /\ wifi_resets' = t.wifi_resets
    /\ clients' = t.clients
    /\ current_client' = t.current_client
    /\ requests_processed' = t.requests_processed
    /\ delayed_response' = t.delayed_response
    /\ delayed_sendtime' = t.delayed_sendtime
    /\ button_webpushed' = t.button_webpushed
    /\ ifttt_do_trigger' = t.ifttt_do_trigger
    /\ logfile_hdr' = t.logfile_hdr
    /\ logfile' = t.logfile
    /\ appended' = t.appended
    /\ client' = t.client
    /\ lcdbuf' = t.lcdbuf
    /\ call' = t.call

\* The counters stay within the bounds of the model.
WithinBounds(t) ==
    /\ t.wifi_connects + t.wifi_connectfails + t.wifi_disconnects <= MaxWifiEvents
    /\ t.requests_processed <= MaxRequests
    /\ \A i \in Slots : t.clients[i].count <= MaxCount
    /\ Len(t.appended) <= MaxAppends

(***************************************************************************)
(* The steps.                                                              *)
(***************************************************************************)
\* The state at start with the event log empty and hdr its header.
Boot(hdr) ==
    /\ web_status = WEB_NOT_CONNECTED
    /\ processing_web = FALSE
    /\ connect_attempts = 0
    /\ next_connect_time = 0
    /\ wifi_connects = 0 /\ wifi_connectfails = 0
    /\ wifi_disconnects = 0 /\ wifi_resets = 0
    /\ clients = [i \in Slots |->
                    [ip_address |-> NoAddr, count |-> 0, gave_password |-> FALSE]]
    /\ current_client = -1
    /\ requests_processed = 0
    /\ delayed_response = FALSE
    /\ delayed_sendtime = U32(0)
    /\ button_webpushed = {}
    /\ ifttt_do_trigger = FALSE
    /\ now = Now0
    /\ millis \in Millis0
    /\ last_poweron_time \in {0, SecStep}
    /\ logfile_hdr = hdr
    /\ logfile = [i \in 0 .. (LogMax - 1) |-> NoEntry]
    /\ appended = << >>
    /\ client = NoConnection
    /\ lcdbuf = [i \in 1 .. LcdCols |-> " "]
    /\ pc = "idle"
    /\ wr = NoWrite
    /\ call = NoCall

Init == Boot(EmptyLog(LogMax - 1))

\* One call of process_web() from the main loop, start to return.
ProcessWeb(pw, wl, cl, cok, xfer) ==
    LET t == process_web(Globals, Input(pw, wl, cl, cok, xfer), now, millis, last_poweron_time) IN
    /\ WithinBounds(t)
    /\ Store(t)
    /\ UNCHANGED << now, millis, last_poweron_time, pc, wr >>

Program == << web_status, processing_web, connect_attempts, next_connect_time,
              wifi_connects, wifi_connectfails, wifi_disconnects, wifi_resets,
              clients, current_client, requests_processed, delayed_response,
              delayed_sendtime, button_webpushed, ifttt_do_trigger,
              logfile_hdr, logfile, appended, client, lcdbuf >>

TickSecs ==
    /\ now + SecStep <= MaxNow
    /\ now' = now + SecStep
    /\ call' = NoCall
    /\ UNCHANGED << Program, millis, last_poweron_time, pc, wr >>

TickMillis ==
    /\ \E m0 \in Millis0, k \in 0 .. (MaxMsTicks - 1) : millis = U32Add(m0, k * MsStep)
    /\ millis' = U32Add(millis, MsStep)
    /\ call' = NoCall
    /\ UNCHANGED << Program, now, last_poweron_time, pc, wr >>

\* The main loop asks for a notification (generator.h:123).
QueueTrigger ==
    /\ pc = "idle"
    /\ ~ifttt_do_trigger
    /\ ifttt_do_trigger' = TRUE
    /\ call' = NoCall
    /\ UNCHANGED << web_status, processing_web, connect_attempts, next_connect_time,
                    wifi_connects, wifi_connectfails, wifi_disconnects, wifi_resets,
                    clients, current_client, requests_processed, delayed_response,
                    delayed_sendtime, button_webpushed, now, millis,
                    last_poweron_time, logfile_hdr, logfile, appended, client, lcdbuf, pc, wr >>

\* The peer closes its end of the connection.
PeerCloses ==
    /\ pc = "idle"
    /\ client.open
    /\ client' = [client EXCEPT !.open = FALSE]
    /\ call' = NoCall
    /\ UNCHANGED << web_status, processing_web, connect_attempts, next_connect_time,
                    wifi_connects, wifi_connectfails, wifi_disconnects, wifi_resets,
                    clients, current_client, requests_processed, delayed_response,
                    delayed_sendtime, button_webpushed, ifttt_do_trigger, now, millis,
                    last_poweron_time, logfile_hdr, logfile, appended, lcdbuf, pc, wr >>

\* The main program writes the row of the display (generator.h:133).
LcdChars == {LEFTARROW, " ", "A", "7"}
LcdRows == UNION { [1 .. n -> LcdChars] : n \in 0 .. LcdCols }

LcdWrite ==
    /\ pc = "idle"
    /\ lcdbuf' \in LcdRows \ {lcdbuf}
    /\ call' = NoCall
    /\ UNCHANGED << web_status, processing_web, connect_attempts, next_connect_time,
                    wifi_connects, wifi_connectfails, wifi_disconnects, wifi_resets,
                    clients, current_client, requests_processed, delayed_response,
                    delayed_sendtime, button_webpushed, ifttt_do_trigger, now, millis,
                    last_poweron_time, logfile_hdr, logfile, appended, client, pc, wr >>

\* The main loop acts on the queued button pushes (generator.h:122).
ButtonsDone ==
    /\ pc = "idle"
    /\ button_webpushed # {}
    /\ button_webpushed' = {}
    /\ call' = NoCall
    /\ UNCHANGED << web_status, processing_web, connect_attempts, next_connect_time,
                    wifi_connects, wifi_connectfails, wifi_disconnects, wifi_resets,
                    clients, current_client, requests_processed, delayed_response,
                    delayed_sendtime, ifttt_do_trigger, now, millis,
                    last_poweron_time, logfile_hdr, logfile, appended, client, lcdbuf, pc, wr >>

\* The main program logs an event of its own (generator.h:97).
MainEvents == {EV_STARTUP, EV_UTIL_FAIL, EV_POWER_BACK}

LogEvent ==
    \E ev \in MainEvents :
        LET t == log_event(Globals, ev) IN
        /\ pc = "idle"
        /\ Len(t.appended) <= MaxAppends
        /\ logfile_hdr' = t.logfile_hdr
        /\ logfile' = t.logfile
        /\ appended' = t.appended
        /\ call' = NoCall
        /\ UNCHANGED << web_status, processing_web, connect_attempts, next_connect_time,
                        wifi_connects, wifi_connectfails, wifi_disconnects, wifi_resets,
                        clients, current_client, requests_processed, delayed_response,
                        delayed_sendtime, button_webpushed, ifttt_do_trigger, now, millis,
                        last_poweron_time, client, lcdbuf, pc, wr >>

(***************************************************************************)
(* The calls of process_web() by what surrounds them.                      *)
(***************************************************************************)
\* The outcomes of the outbound connection: refused, dropped before the
\* request has been written, up until it has.
Outbound == { [cok |-> FALSE, xfer |-> FALSE], [cok |-> TRUE, xfer |-> FALSE],
              [cok |-> TRUE, xfer |-> TRUE] }

\* No client is waiting; power, the reported status and connect() vary.
CallAny ==
    \E pw \in BOOLEAN, wl \in WLStatus, o \in Outbound :
        ProcessWeb(pw, wl, NoClient, o.cok, o.xfer)

\* No client is waiting; power is present and the network is up.
CallUp ==
    \E o \in Outbound : ProcessWeb(TRUE, WL_CONNECTED, NoClient, o.cok, o.xfer)

\* A client with one of the requests reqs is waiting when the server polls.
CallClient(reqs) ==
    \E cl \in reqs :
        web_status = WEB_AWAITING_CLIENT /\ ProcessWeb(TRUE, WL_CONNECTED, cl, FALSE, FALSE)

\* delay_looksee() holds its caller for a while; process_web() can be called
\* again before it returns.
delay_looksee == pc = "looksee"

\* A call of process_web() in WEB_AWAITING_CONNECTION that finds the network
\* connected, up to where show_wifi_mac_info() waits in delay_looksee().
ProcessWebBlocks ==
    LET in == Input(TRUE, WL_CONNECTED, NoClient, FALSE, FALSE)
        t == process_web_body(Globals, in, now, millis, last_poweron_time)
    IN /\ pc = "idle"
       /\ web_status = WEB_AWAITING_CONNECTION
       /\ web_enabled(Globals, in, now, last_poweron_time)
       /\ WithinBounds(t)
       /\ Store(t)
       /\ pc' = "looksee"
       /\ UNCHANGED << now, millis, last_poweron_time, wr >>

\* The rest of that call, from the return of delay_looksee() to its own.
ProcessWebResumes ==
    /\ delay_looksee
    /\ pc' = "idle"
    /\ processing_web' = FALSE
    /\ call' = NoCall
    /\ UNCHANGED << web_status, connect_attempts, next_connect_time,
                    wifi_connects, wifi_connectfails, wifi_disconnects, wifi_resets,
                    clients, current_client, requests_processed, delayed_response,
                    delayed_sendtime, button_webpushed, ifttt_do_trigger, now, millis,
                    last_poweron_time, logfile_hdr, logfile, appended, client, lcdbuf, wr >>

(***************************************************************************)
(* Spec: the connectivity state machine.  Power, the reported status and   *)
(* time vary freely; one peer sends a page request, the password and a     *)
(* button push.                                                            *)
(***************************************************************************)
NetRequests ==
    { Request(1, << Route("GET_ROOT"), Blank >>, FALSE),
      Request(1, << Route("POST_SETPASS"), Blank, Pwd(ACTION_PASSWORD) >>, FALSE),
      Request(1, << Route("POST_PUSHBUTTON"), Blank, Button(0) >>, FALSE) }

\* millis() is read when a response is delayed and while it is awaited: it
\* advances here only while one is awaited.
Next ==
    \/ CallAny
    \/ CallClient(NetRequests)
    \/ TickSecs
    \/ (web_status = WEB_PROCESSING_REQUEST /\ TickMillis)
    \/ QueueTrigger

\* millis() starts at 0 here; its wrap is the business of SpecHttp.
InitNet == Init /\ millis = U32(0)

Spec == InitNet /\ [][Next]_vars

(***************************************************************************)
(* SpecHttp: the request engine.  Power is present and the network is up;  *)
(* one peer sends every request of Streams, a second peer the requests     *)
(* that tell the peers apart; peers close their end; millis() advances.    *)
(***************************************************************************)
\* requests that leave input unread, and peers that close once they have sent
LeftoverStreams ==
    { << Route("GET_ROOT"), Blank, Other >>,
      << Route("POST_SETPASS"), Blank, Pwd(ACTION_PASSWORD), Blank, Other >>,
      << Route("POST_PUSHBUTTON"), Blank, Button(0), Blank, Other >> }
Leftovers == { Request(1, l, FALSE) : l \in LeftoverStreams }
Hangups == { Hangup(r) : r \in Leftovers \cup { Request(1, << Route("GET_LOG"), Blank >>, FALSE) } }
\* the second peer sends the requests that tell the peers apart
SecondPeerStreams ==
    { << Route("GET_ROOT"), Other, Blank >>,
      << Route("POST_SETPASS"), Blank, Pwd(ACTION_PASSWORD) >>,
      << Route("POST_SETPASS"), Blank, Pwd("Password") >>,
      << Route("POST_PUSHBUTTON"), Blank, Button(0) >>,
      << Route("POST_PUSHBUTTON"), Blank, Button(NUM_BUTTONS - 1) >> }
HttpRequests ==
    Requests({1}) \cup { Request(2, l, FALSE) : l \in SecondPeerStreams }
                  \cup Leftovers \cup Hangups

InitHttp == Init /\ last_poweron_time = 0

NextHttp ==
    \/ CallUp
    \/ CallClient(HttpRequests)
    \/ TickMillis
    \/ ButtonsDone
    \/ PeerCloses

SpecHttp == InitHttp /\ [][NextHttp]_vars

(***************************************************************************)
(* SpecPower: power comes and goes.  The network is up; one peer sends a   *)
(* page request, the password and a button push; calls are made with and   *)
(* without power; the main program records the time power came back.       *)
(***************************************************************************)
\* The main program notes when power came back (generator.h:136).
PowerBack ==
    /\ pc = "idle"
    /\ last_poweron_time < now
    /\ last_poweron_time' = now
    /\ call' = NoCall
    /\ UNCHANGED << Program, now, millis, pc, wr >>

\* No client is waiting; the network is up; power is present or not.
CallPower ==
    \E pw \in BOOLEAN : ProcessWeb(pw, WL_CONNECTED, NoClient, FALSE, FALSE)

InitPower == Init /\ last_poweron_time = 0 /\ millis = U32(0)

NextPower ==
    \/ CallPower
    \/ CallClient(NetRequests)
    \/ TickSecs
    \/ TickMillis
    \/ PowerBack

SpecPower == InitPower /\ [][NextPower]_vars

(***************************************************************************)
(* SpecRegistry: the visitor table.  Power is present and the network is   *)
(* up; more peers than slots send one request of every type.               *)
(***************************************************************************)
RegistryStreams ==
    { << Route(k), Blank >> : k \in GetRoutes }
    \cup { << Other, Blank >>,
           << Route("POST_SETPASS"), Blank, Pwd(ACTION_PASSWORD) >>,
           << Route("POST_SETPASS"), Blank, Pwd("Password") >>,
           << Route("POST_PUSHBUTTON"), Blank, Button(0) >> }
RegistryRequests == { Request(ip, l, FALSE) : ip \in Peers, l \in RegistryStreams }

InitRegistry == Init /\ last_poweron_time = 0 /\ millis = U32(0)

NextRegistry ==
    \/ CallUp
    \/ CallClient(RegistryRequests)

SpecRegistry == InitRegistry /\ [][NextRegistry]_vars

(***************************************************************************)
(* SpecReentrant: calls of process_web() within a call of process_web().   *)
(* Power is present; a call can wait in delay_looksee() while further      *)
(* calls are made, with any reported status and a client or none.          *)
(***************************************************************************)
InitReentrant == Init /\ last_poweron_time = 0 /\ millis = U32(0)

NextReentrant ==
    \/ CallAny
    \/ CallClient(NetRequests)
    \/ ProcessWebBlocks
    \/ ProcessWebResumes
    \/ QueueTrigger

SpecReentrant == InitReentrant /\ [][NextReentrant]_vars

(***************************************************************************)
(* SpecLog: the event log and its page.  Power is present and the network  *)
(* is up; the log starts empty at any place of the ring; the main program  *)
(* and the notifications append to it, and a peer asks for the log page.   *)
(***************************************************************************)
LogRequests == { Request(1, << Route("GET_LOG"), Blank >>, FALSE) }

InitLog ==
    /\ \E k \in 0 .. (LogMax - 1) : Boot(EmptyLog(k))
    /\ last_poweron_time = 0 /\ millis = U32(0)

NextLog ==
    \/ CallUp
    \/ CallClient(LogRequests)
    \/ LogEvent
    \/ QueueTrigger

SpecLog == InitLog /\ [][NextLog]_vars

(***************************************************************************)
(* SpecRender: the status page and the display.  Power is present and the  *)
(* network is up; the main program writes the row of the display, and a    *)
(* peer asks for the status page.  fatal_error is not set.                 *)
(***************************************************************************)
RenderRequests == { Request(1, << Route("GET_ROOT"), Blank >>, FALSE) }

InitRender == Init /\ last_poweron_time = 0 /\ millis = U32(0)

NextRender ==
    \/ CallUp
    \/ CallClient(RenderRequests)
    \/ LcdWrite

SpecRender == InitRender /\ [][NextRender]_vars

(***************************************************************************)
(* SpecWrite: the output loops.  A job is started with the connection      *)
(* open; the program takes its steps; the peer closes when it likes, and   *)
(* the transport accepts what it likes of each write.                      *)
(***************************************************************************)
\* the buffers of a job, by length: less than a chunk, a chunk, more than a
\* chunk, and several buffers of which one is empty
JobBuffers ==
    { << 1 >>, << CHUNKSIZE >>, << CHUNKSIZE + 1 >>, << 2, 0, (2 * CHUNKSIZE) + 1 >> }
JobKinds == {"response", "notification"}

WriteFrame ==
    /\ call' = NoCall
    /\ UNCHANGED << web_status, processing_web, connect_attempts, next_connect_time,
                    wifi_connects, wifi_connectfails, wifi_disconnects, wifi_resets,
                    clients, current_client, requests_processed, delayed_response,
                    delayed_sendtime, button_webpushed, ifttt_do_trigger, now, millis,
                    last_poweron_time, logfile_hdr, logfile, appended, lcdbuf, pc >>

\* generate_response() or ifttt_send_trigger() comes to its first write
StartWrite ==
    /\ pc = "idle"
    /\ wr.pc \in {"idle", "returned"}
    /\ \E kind \in JobKinds, lens \in JobBuffers :
         wr' = [NoWrite EXCEPT !.pc = "while", !.kind = kind, !.todo = Tail(lens),
                               !.length = Head(lens), !.total = SumLengths(lens)]
    /\ client' = [open |-> TRUE, unread |-> << >>]
    /\ WriteFrame

WriteWhile ==
    /\ wr.pc = "while"
    /\ wr' = client_write_while(wr)
    /\ UNCHANGED client
    /\ WriteFrame

WriteConnected ==
    /\ wr.pc = "connected"
    /\ wr' = client_write_connected(wr, client)
    /\ UNCHANGED client
    /\ WriteFrame

WriteWrite ==
    /\ wr.pc = "write"
    /\ \E bytes_done \in Accepts(client, IF wr.length > CHUNKSIZE THEN CHUNKSIZE ELSE wr.length) :
         wr' = client_write_write(wr, bytes_done)
    /\ UNCHANGED client
    /\ WriteFrame

\* genwifiserver.cpp:486, the test of the loop that reads the answer
DrainWhile ==
    /\ wr.pc = "drain"
    /\ wr' = [wr EXCEPT !.pc = IF connected(client) THEN "read" ELSE "stop"]
    /\ UNCHANGED client
    /\ WriteFrame

\* genwifiserver.cpp:487-489, what has arrived is read
DrainRead ==
    /\ wr.pc = "read"
    /\ wr' = [wr EXCEPT !.pc = "drain"]
    /\ client' = [client EXCEPT !.unread = << >>]
    /\ WriteFrame

\* genwifiserver.cpp:388-390 and 493, the connection is stopped and the job ends
WriteStop ==
    /\ wr.pc = "stop"
    /\ wr' = [wr EXCEPT !.pc = "returned"]
    /\ client' = stop(drain(client))
    /\ WriteFrame

\* The peer closes its end while a job runs.
PeerClosesJob ==
    /\ wr.pc \notin {"idle", "returned"}
    /\ client.open
    /\ client' = [client EXCEPT !.open = FALSE]
    /\ UNCHANGED wr
    /\ WriteFrame

\* The server of the notification sends some of its answer.
ServerAnswers ==
    /\ wr.pc \in {"drain", "read"}
    /\ client.open /\ client.unread = << >>
    /\ client' = [client EXCEPT !.unread = << Other >>]
    /\ UNCHANGED wr
    /\ WriteFrame

InitWrite == Init /\ last_poweron_time = 0 /\ millis = U32(0)

NextWrite ==
    \/ StartWrite
    \/ WriteWhile
    \/ WriteConnected
    \/ WriteWrite
    \/ DrainWhile
    \/ DrainRead
    \/ WriteStop
    \/ PeerClosesJob
    \/ ServerAnswers

SpecWrite == InitWrite /\ [][NextWrite]_vars

\* The program takes its next step whenever it has one; nothing is asked of
\* the peer or of the transport.
SpecWriteFair ==
    /\ SpecWrite
    /\ WF_vars(WriteWhile) /\ WF_vars(WriteConnected) /\ WF_vars(WriteWrite)
    /\ WF_vars(DrainWhile) /\ WF_vars(DrainRead) /\ WF_vars(WriteStop)

(***************************************************************************)
(* SpecLine: lines longer than the line buffer.  Power is present and the  *)
(* network is up; two peers send requests with a header line of more than  *)
(* MAXLINE - 1 bytes, and requests without one.                            *)
(***************************************************************************)
LineStreams ==
    { << Long(Route("GET_LOG"), Other), Blank >>,
      << Long(Other, Route("GET_LOG")), Blank >>,
      << Route("GET_LOG"), Long(Other, Route("GET_VISITORS")), Blank >>,
      << Route("GET_ROOT"), Long(Other, Route("POST_PUSHBUTTON")), Blank, Button(0) >>,
      << Route("POST_SETPASS"), Long(Other, Blank), Blank, Pwd(ACTION_PASSWORD) >>,
      << Route("POST_SETPASS"), Other, Blank, Pwd(ACTION_PASSWORD) >>,
      << Route("GET_ROOT"), Other, Blank >> }
LineRequests == { Request(ip, l, FALSE) : ip \in {1, 2}, l \in LineStreams }

InitLine == Init /\ last_poweron_time = 0

NextLine ==
    \/ CallUp
    \/ CallClient(LineRequests)
    \/ TickMillis
    \/ ButtonsDone

SpecLine == InitLine /\ [][NextLine]_vars

(***************************************************************************)
(* The connectivity state machine (Spec).                                  *)
(***************************************************************************)
\* A step that is a call of process_web(): call' is the record of that call.
Called == call'.active

\* C4: while the network has never been joined, the module has been reset once
\* for every MAX_CONNECT_ATTEMPTS association failures and not otherwise: no
\* reset after fewer than MAX_CONNECT_ATTEMPTS failures, exactly one after
\* MAX_CONNECT_ATTEMPTS; and the call that sees a failure leaves the attempt
\* counter at the number of failures since the last reset, 0 when it resets.
C4_ResetAfterMaxAttempts ==
    (wifi_connects = 0 /\ wifi_disconnects = 0) =>
        /\ wifi_resets = wifi_connectfails \div MAX_CONNECT_ATTEMPTS
        /\ (call.active /\ call.wl = WL_CONNECT_FAILED) =>
              /\ connect_attempts = wifi_connectfails % MAX_CONNECT_ATTEMPTS
              /\ ("wifi_reset" \in call.net) = (connect_attempts = 0)

C4_Witness ==
    /\ call.active /\ call.wl = WL_CONNECT_FAILED
    /\ wifi_connects = 0 /\ wifi_disconnects = 0
    /\ wifi_connectfails = MAX_CONNECT_ATTEMPTS
    /\ wifi_resets = 1 /\ connect_attempts = 0
    /\ "wifi_reset" \in call.net

\* C5: a call in WEB_AWAITING_CONNECTION to which WiFi.status() reports
\* WL_CONNECTED starts the server, zeroes the attempt counter and ends in
\* WEB_AWAITING_CLIENT; and every call to which WiFi.status() reports
\* WL_CONNECTED, like every call in WEB_PROCESSING_REQUEST, issues no WiFi.begin
\* and ends in WEB_AWAITING_CLIENT or WEB_PROCESSING_REQUEST.
C5_ConnectedStaysConnected ==
    [][ Called =>
          /\ (call'.wl = WL_CONNECTED /\ web_status = WEB_AWAITING_CONNECTION) =>
                /\ web_status' = WEB_AWAITING_CLIENT
                /\ connect_attempts' = 0
                /\ "server.begin" \in call'.net
          /\ (call'.wl = WL_CONNECTED \/ web_status = WEB_PROCESSING_REQUEST) =>
                /\ "WiFi.begin" \notin call'.net
                /\ web_status' \in {WEB_AWAITING_CLIENT, WEB_PROCESSING_REQUEST}
      ]_vars

C5_Witness ==
    /\ call.active /\ call.wl = WL_CONNECTED
    /\ "server.begin" \in call.net
    /\ wifi_connectfails > 0
    /\ web_status = WEB_AWAITING_CLIENT /\ connect_attempts = 0

\* C6: a call issues WiFi.begin, and moves from WEB_NOT_CONNECTED to
\* WEB_AWAITING_CONNECTION, only when now() has reached next_connect_time; a
\* call that counts an association failure or a disconnect sets
\* next_connect_time to now() + CONNECT_DELAY_SECS and ends in
\* WEB_NOT_CONNECTED.
C6_RetryNotBeforeDelay ==
    [][ Called =>
          /\ ("WiFi.begin" \in call'.net \/ web_status' = WEB_AWAITING_CONNECTION) =>
                /\ web_status \in {WEB_NOT_CONNECTED, WEB_AWAITING_CONNECTION}
                /\ web_status = WEB_NOT_CONNECTED => now >= next_connect_time
          /\ (wifi_connectfails' # wifi_connectfails \/ wifi_disconnects' # wifi_disconnects) =>
                /\ next_connect_time' = now + CONNECT_DELAY_SECS
                /\ web_status' = WEB_NOT_CONNECTED
      ]_vars

C6_Witness ==
    /\ call.active /\ "WiFi.begin" \in call.net
    /\ wifi_connectfails > 0 /\ wifi_disconnects > 0
    /\ now >= next_connect_time

\* C7: a call opens the outbound connection of a notification only if it is in
\* WEB_AWAITING_CLIENT, WiFi.status() reports WL_CONNECTED and the server has
\* been polled and handed over no client; a call that is handed a client
\* serves it, opens no outbound connection and leaves the trigger flag alone.
C7_NotificationOnlyWhenIdle ==
    [][ Called =>
          /\ "client.connect" \in call'.net =>
                /\ web_status = WEB_AWAITING_CLIENT
                /\ call'.wl = WL_CONNECTED
                /\ "server.available" \in call'.net
                /\ call'.cl = NoClient
                /\ ifttt_do_trigger
          /\ call'.cl # NoClient =>
                /\ "client.connect" \notin call'.net
                /\ call'.req # "-"
                /\ ifttt_do_trigger' = ifttt_do_trigger
      ]_vars

C7_Witness ==
    /\ call.active /\ call.cl # NoClient
    /\ call.rsp = "RSP_STATUS"
    /\ ifttt_do_trigger

\* The other case of C7: a notification has been sent by an idle call.
C7_Sent ==
    /\ call.active /\ "client.connect" \in call.net /\ ~ifttt_do_trigger

(***************************************************************************)
(* The request engine (SpecHttp).                                          *)
(***************************************************************************)
\* The lines of a request after the first blank line.
BodyLines(cl) ==
    LET n == Len(cl.lines)
        blanks == {i \in 1 .. n : cl.lines[i].k = "BLANK"}
        first == IF blanks = {} THEN n
                 ELSE CHOOSE i \in blanks : \A j \in blanks : i <= j
    IN SubSeq(cl.lines, first + 1, n)

\* The button indices within range that the body of a request carries.
ValidButtons(cl) ==
    LET body == BodyLines(cl) IN
    {body[i].b : i \in {j \in DOMAIN body : /\ body[j].k = "BUTTON"
                                            /\ body[j].b \in 0 .. (NUM_BUTTONS - 1)}}

\* The lines of the body of a request that submit a password.
PwdLines(cl) ==
    LET body == BodyLines(cl) IN {i \in DOMAIN body : body[i].k = "PWD"}

\* The record of the peer ip, if it has one, is (not) marked authorized.
Authorized(ip) == \E i \in Slots : clients[i].ip_address = ip /\ clients[i].gave_password
NotAuthorized(ip) == \A i \in Slots : clients[i].ip_address = ip => ~clients[i].gave_password

\* millis() is past delayed_sendtime, by less than the time the model spans.
PastDeadline == \E k \in 1 .. MaxMsTicks : millis = U32Add(delayed_sendtime, k * MsStep)

\* C2: a call that serves a pushbutton request of a peer whose record is not
\* marked authorized (or who has no record) sets no button flag, leaves the
\* delayed response unarmed and its send time alone, whatever lines it read.
C2_UnauthorizedPushQueuesNothing ==
    [][ (Called /\ call'.req = "REQ_PUSHBUTTON" /\ NotAuthorized(call'.cl.ip)) =>
          /\ button_webpushed' = button_webpushed
          /\ ~delayed_response'
          /\ delayed_response' = delayed_response
          /\ delayed_sendtime' = delayed_sendtime
          /\ call'.rsp # "RSP_NONE"
      ]_vars

C2_Witness ==
    /\ call.active /\ call.req = "REQ_PUSHBUTTON"
    /\ Cardinality(ValidButtons(call.cl)) = 2
    /\ ~clients[current_client].gave_password
    /\ call.rsp = "RSP_ASKPASS"
    /\ button_webpushed = {} /\ ~delayed_response

\* C3, as claimed: a call that serves a pushbutton request of an authorized
\* peer whose body (arrived) carries one button index within range sets that
\* button's flag and no other, generates no response, ends in
\* WEB_PROCESSING_REQUEST with the delayed response armed; and a call in
\* WEB_PROCESSING_REQUEST made after the deadline (more than DELAYED_RSP_MSEC
\* after the arming) generates the status response and ends in
\* WEB_AWAITING_CLIENT.
C3_PushThenDelayedStatus ==
    [][ Called =>
          /\ ( /\ call'.req = "REQ_PUSHBUTTON"
               /\ Authorized(call'.cl.ip)
               /\ ~call'.cl.late
               /\ Cardinality(ValidButtons(call'.cl)) = 1 ) =>
                /\ button_webpushed' = button_webpushed \cup ValidButtons(call'.cl)
                /\ call'.rsp = "RSP_NONE"
                /\ web_status' = WEB_PROCESSING_REQUEST
                /\ delayed_response'
          /\ (web_status = WEB_PROCESSING_REQUEST /\ PastDeadline) =>
                /\ call'.rsp = "RSP_STATUS"
                /\ web_status' = WEB_AWAITING_CLIENT
      ]_vars

\* C8, as claimed: after a call that served a setpass request whose body
\* submits one password, the peer's record is marked authorized and the
\* response is the status page if the password is the secret, and the response
\* is the password form if it is not.
C8_SetpassOutcome ==
    (call.active /\ call.req = "REQ_SETPASS" /\ Cardinality(PwdLines(call.cl)) = 1) =>
        LET body == BodyLines(call.cl)
            pwd == body[CHOOSE i \in PwdLines(call.cl) : TRUE].s
        IN IF pwd = ACTION_PASSWORD
           THEN clients[current_client].gave_password /\ call.rsp = "RSP_STATUS"
           ELSE call.rsp = "RSP_ASKPASS"

(***************************************************************************)
(* The visitor table (SpecRegistry).                                       *)
(***************************************************************************)
\* The call that ends in the primed state served a client at address ip.
Served(ip) == Called /\ call'.cl.ip = ip /\ ip # NoAddr

\* The slots that hold the record of address ip.
SlotsOf(ip) == {i \in Slots : clients[i].ip_address = ip}

\* The occupied record to replace: minimum count, lowest index among ties.
Victim ==
    CHOOSE v \in Slots : \A i \in Slots :
        \/ clients[v].count < clients[i].count
        \/ clients[v].count = clients[i].count /\ v <= i

\* C9, as claimed: a request from an address that has a record is served
\* with that same record, whose count is afterwards strictly greater,
\* whatever the type of the request.
C9_SameRecordCountGrows ==
    [][ \A ip \in Peers : \A i \in SlotsOf(ip) : Served(ip) =>
          /\ current_client' = i
          /\ clients'[i].ip_address = ip
          /\ clients'[i].count > clients[i].count
      ]_vars

\* C9, amended: a request from an address that has a record is served with
\* that same record; its count is afterwards greater by one for every type
\* of request but that of the favicon, which leaves the count as it was.
C9_SameRecordCountGrowsButFavicon ==
    [][ \A ip \in Peers : \A i \in SlotsOf(ip) : Served(ip) =>
          /\ current_client' = i
          /\ clients'[i].ip_address = ip
          /\ clients'[i].count = IF call'.req = "REQ_FAVICON"
                                 THEN clients[i].count
                                 ELSE clients[i].count + 1
      ]_vars

C9_Witness ==
    /\ call.active /\ call.cl.ip # NoAddr
    /\ call.req # "REQ_FAVICON"
    /\ clients[current_client].ip_address = call.cl.ip
    /\ clients[current_client].count = 3

\* C10: a request from an address that has no record, when no slot is empty,
\* replaces the record of minimum count, the one of lowest index among
\* several, and changes no other slot; when a slot is empty, the new record
\* goes into an empty slot and no other slot changes.
C10_EvictMinCountLowestIndex ==
    [][ \A ip \in Peers : (Served(ip) /\ SlotsOf(ip) = {}) =>
          IF SlotsOf(NoAddr) = {}
          THEN /\ clients'[Victim].ip_address = ip
               /\ current_client' = Victim
               /\ \A i \in Slots \ {Victim} : clients'[i] = clients[i]
          ELSE \E e \in SlotsOf(NoAddr) :
                 /\ clients'[e].ip_address = ip
                 /\ current_client' = e
                 /\ \A i \in Slots \ {e} : clients'[i] = clients[i]
      ]_vars

C10_Witness ==
    /\ call.active /\ call.evicted # NoAddr
    /\ clients[current_client].ip_address = call.cl.ip
    /\ current_client = 1
    /\ \E i \in Slots : clients[i].count > clients[current_client].count

(***************************************************************************)
(* Calls within a call (SpecReentrant).                                    *)
(***************************************************************************)
\* C1, as claimed: every call of process_web() made while an earlier call is
\* still inside its guarded section changes none of web_status,
\* connect_attempts, next_connect_time, the four counters, the visitor
\* table, delayed_response and ifttt_do_trigger, and issues no network
\* primitive: the first such call and every one after it.
C1_NestedCallIsNoOp ==
    [][ (delay_looksee /\ Called) =>
          /\ UNCHANGED << web_status, connect_attempts, next_connect_time,
                          wifi_connects, wifi_connectfails, wifi_disconnects,
                          wifi_resets, clients, delayed_response, ifttt_do_trigger >>
          /\ call'.net = {}
      ]_vars

\* The first of the nested calls has returned: it did nothing but clear the flag.
C1_Witness ==
    /\ delay_looksee /\ call.active /\ call.net = {}
    /\ ~processing_web
    /\ web_status = WEB_AWAITING_CLIENT

(***************************************************************************)
(* Responses (SpecHttp) and the loss of the network (Spec).                *)
(***************************************************************************)
\* No line of the header of the request is one of the seven routes.
NoRoute(cl) ==
    \A i \in 1 .. (Len(cl.lines) - Len(BodyLines(cl))) :
        cl.lines[i].k \in {"BLANK", "OTHER", "GET_OTHER", "POST_OTHER", "BUTTON", "PWD"}

\* C14, as claimed: a call that serves a request none of whose header lines is
\* one of the seven routes types it REQ_UNKNOWN and generates the unknown-
\* request response itself; every call that serves a request either generates
\* one response and ends in WEB_AWAITING_CLIENT with nothing pending, or
\* generates none and ends in WEB_PROCESSING_REQUEST with the delayed response
\* armed; and that delayed response is generated, as a status response, by
\* the call made in WEB_PROCESSING_REQUEST once the deadline has passed.
C14_EveryRequestAnswered ==
    [][ Called =>
          /\ (call'.cl # NoClient /\ NoRoute(call'.cl)) =>
                /\ call'.req = "REQ_UNKNOWN"
                /\ call'.rsp = "RSP_UNKNOWN"
          /\ call'.cl # NoClient =>
                \/ /\ call'.rsp \in response_type_t \ {"RSP_NONE"}
                   /\ web_status' = WEB_AWAITING_CLIENT /\ ~delayed_response'
                \/ /\ call'.rsp = "RSP_NONE"
                   /\ web_status' = WEB_PROCESSING_REQUEST /\ delayed_response'
          /\ (web_status = WEB_PROCESSING_REQUEST /\ PastDeadline) =>
                /\ call'.rsp = "RSP_STATUS"
                /\ web_status' = WEB_AWAITING_CLIENT /\ ~delayed_response'
      ]_vars

\* C15, as claimed: every call that serves a pushbutton request of a peer
\* whose record is not marked authorized generates the password form,
\* whatever the body of the request.
C15_UnauthorizedPushAsksPassword ==
    [][ (Called /\ call'.req = "REQ_PUSHBUTTON" /\ NotAuthorized(call'.cl.ip)) =>
          call'.rsp = "RSP_ASKPASS"
      ]_vars

\* C19: in every state between calls web_status is WEB_PROCESSING_REQUEST
\* exactly when delayed_response is set; a call in WEB_PROCESSING_REQUEST
\* therefore finds delayed_response set, and it neither polls the server nor
\* serves a client, so no second response becomes pending.
C19_ProcessingIffPending ==
    /\ (web_status = WEB_PROCESSING_REQUEST) <=> delayed_response
    /\ [][ /\ (web_status' = WEB_PROCESSING_REQUEST) <=> delayed_response'
           /\ (Called /\ web_status = WEB_PROCESSING_REQUEST) =>
                 /\ delayed_response
                 /\ "server.available" \notin call'.net
                 /\ call'.cl = NoClient
       ]_vars

C19_Witness ==
    /\ call.active /\ call.cl = NoClient /\ call.rsp = "RSP_STATUS"
    /\ web_status = WEB_AWAITING_CLIENT /\ ~delayed_response
    /\ button_webpushed # {}

\* C20: a call in WEB_AWAITING_CLIENT to which WiFi.status() reports anything
\* but WL_CONNECTED adds one to wifi_disconnects and one to wifi_resets, calls
\* wifi_reset(), leaves connect_attempts at 0, sets next_connect_time to
\* now() + CONNECT_DELAY_SECS, ends in WEB_NOT_CONNECTED, and neither polls the
\* server nor opens the outbound connection of a notification.
C20_LossOfNetwork ==
    [][ (Called /\ web_status = WEB_AWAITING_CLIENT
                /\ call'.wl \in WLStatus \ {WL_CONNECTED}) =>
          /\ wifi_disconnects' = wifi_disconnects + 1
          /\ wifi_resets' = wifi_resets + 1
          /\ "wifi_reset" \in call'.net
          /\ connect_attempts' = 0
          /\ next_connect_time' = now + CONNECT_DELAY_SECS
          /\ web_status' = WEB_NOT_CONNECTED
          /\ "server.available" \notin call'.net
          /\ "client.connect" \notin call'.net
          /\ call'.cl = NoClient /\ call'.rsp = "-"
          /\ ifttt_do_trigger' = ifttt_do_trigger
          /\ UNCHANGED << clients, requests_processed, button_webpushed, delayed_response >>
      ]_vars

C20_Witness ==
    /\ call.active /\ call.wl \in WLStatus \ {WL_CONNECTED}
    /\ wifi_disconnects = 1 /\ wifi_resets = 1
    /\ web_status = WEB_NOT_CONNECTED
    /\ ifttt_do_trigger

(***************************************************************************)
(* The event log (SpecLog).                                                *)
(***************************************************************************)
\* The last n entries given to log_event(), the latest first.
LatestFirst(n) == [i \in 1 .. n |-> appended[Len(appended) + 1 - i]]

\* C11: once log_event() has been called more often than the ring has slots,
\* num_entries is the number of slots, and the log page lists the entries of
\* the last that many calls, the latest first, and no other.
C11_FullLogNewestFirst ==
    Len(appended) > LogMax =>
        /\ logfile_hdr.num_entries = LogMax
        /\ (call.active /\ call.rsp = "RSP_LOG") =>
              /\ call.log.ends
              /\ call.log.rows = LatestFirst(LogMax)

C11_Witness ==
    /\ call.active /\ call.rsp = "RSP_LOG"
    /\ Len(appended) > LogMax
    /\ \A i, j \in 1 .. LogMax : i # j => call.log.rows[i] # call.log.rows[j]

\* C12: the listing of the log page comes to an end; it has no entry when
\* log_event() has never been called, and it has num_entries entries, as many
\* as log_event() was called, when that is between 1 and the number of slots,
\* wherever in the ring the log started.
C12_LogWalkYieldsCount ==
    (call.active /\ call.rsp = "RSP_LOG" /\ Len(appended) <= LogMax) =>
        /\ call.log.ends
        /\ logfile_hdr.num_entries = Len(appended)
        /\ Len(call.log.rows) = logfile_hdr.num_entries
        /\ call.log.rows = LatestFirst(Len(appended))

C12_Witness ==
    /\ call.active /\ call.rsp = "RSP_LOG"
    /\ Len(appended) = 2 /\ Len(call.log.rows) = 2
    /\ logfile_hdr.newest < logfile_hdr.oldest

(***************************************************************************)
(* The log and the errors (Spec).                                          *)
(***************************************************************************)
\* The call has sent a notification.
Sending == Called /\ call'.out # "-"

\* The entry the call has appended last.
LastLogged == appended'[Len(appended')].event_type

\* C17: a notification send that fails to connect, or whose connection drops
\* before the request has been written, appends EV_IFTTT_FAILED to the log,
\* and EV_IFTTT_SENT is appended only by a send whose request was written in
\* full.
C17_DeliveryErrorLogsFailed ==
    [][ Sending =>
          /\ call'.out \in {"refused", "dropped"} => LastLogged = EV_IFTTT_FAILED
          /\ LastLogged = EV_IFTTT_SENT => call'.out = "transferred" ]_vars

\* A send whose connection dropped before the request was written.
C17_Witness ==
    /\ call.active /\ call.out = "dropped"
    /\ appended[Len(appended)].event_type = EV_IFTTT_SENT

\* The call has seen the association fail.
AssociationFailed ==
    /\ Called /\ web_status = WEB_AWAITING_CONNECTION
    /\ call'.wl \notin {"-", WL_CONNECTED, WL_IDLE_STATUS}

\* The call has found the association lost.
AssociationLost ==
    /\ Called /\ web_status = WEB_AWAITING_CLIENT
    /\ call'.wl \notin {"-", WL_CONNECTED}

\* The call has reset the module.
ModuleReset == Called /\ "wifi_reset" \in call'.net

LogUnchanged ==
    /\ appended' = appended
    /\ logfile' = logfile
    /\ logfile_hdr' = logfile_hdr

\* C18 as stated: every association failure, every loss of association and
\* every module reset appends an entry to the log.
C18_FailuresAreLogged ==
    [][ (AssociationFailed \/ AssociationLost \/ ModuleReset) =>
            Len(appended') > Len(appended) ]_vars

\* C18: every association failure adds one to wifi_connectfails, every loss of
\* association one to wifi_disconnects and every module reset one to
\* wifi_resets, and none of them writes to the log: the call leaves the log as
\* it found it (the log_event() calls of the state machine are commented out).
C18_FailuresCountedNotLogged ==
    [][ /\ AssociationFailed => wifi_connectfails' = wifi_connectfails + 1
        /\ AssociationLost => wifi_disconnects' = wifi_disconnects + 1
        /\ ModuleReset => wifi_resets' = wifi_resets + 1
        /\ (AssociationFailed \/ AssociationLost \/ ModuleReset) => LogUnchanged ]_vars

C18_Witness ==
    /\ call.active /\ call.wl = WL_CONNECT_FAILED
    /\ "wifi_reset" \in call.net
    /\ wifi_connectfails > 0 /\ wifi_resets > 0
    /\ Len(appended) > 0

(***************************************************************************)
(* The end of a response (SpecHttp).                                       *)
(***************************************************************************)
\* The call has generated a response, at once or the deferred one.
Responded == Called /\ call'.rsp \notin {"-", "RSP_NONE"}

\* C16: when a call has generated a response, at once or the deferred one, no
\* input of the client is left unread, the client is not connected, whether
\* or not the peer has closed its end, and web_status is WEB_AWAITING_CLIENT.
C16_ResponseDrainsAndCloses ==
    [][ Responded =>
          /\ client'.unread = << >>
          /\ ~connected(client')
          /\ web_status' = WEB_AWAITING_CLIENT ]_vars

\* The deferred response to a peer that is still there and has left input unread.
C16_Witness ==
    /\ call.active /\ call.rsp = "RSP_STATUS" /\ call.cl = NoClient
    /\ call.unread # << >>
    /\ "client.stop" \in call.net
    /\ ~connected(client)

(***************************************************************************)
(* The display on the status page (SpecRender).                            *)
(***************************************************************************)
Chars(str) == { str[i] : i \in 1 .. Len(str) }
Contains(str, sub) ==
    \E i \in 0 .. (Len(str) - Len(sub)) : SubSeq(str, i + 1, i + Len(sub)) = sub
Plain(c) == c \in {"A", "7"}

\* The status page has been generated for a row with the glyph and a space.
ArrowAndBlankShown ==
    /\ call.active /\ call.rsp = "RSP_STATUS"
    /\ LEFTARROW \in Chars(lcdbuf) /\ " " \in Chars(lcdbuf)

\* C13: the text the status page shows for a row of the display that holds
\* the left-arrow glyph and a space contains the reference &#8592; and the
\* entity &nbsp;, each with its semicolon, and not the glyph, and the other
\* characters of the row are in it unchanged and in order.
C13_ArrowAndBlankExpanded ==
    ArrowAndBlankShown =>
        /\ Contains(call.page, LeftArrowRef)
        /\ Contains(call.page, Nbsp)
        /\ LEFTARROW \notin Chars(call.page)
        /\ SelectSeq(call.page, Plain) = SelectSeq(lcdbuf, Plain)

\* A page whose text for the row has no semicolon.
C13_Witness ==
    /\ ArrowAndBlankShown
    /\ ";" \notin Chars(call.page)
    /\ LEFTARROW \notin Chars(call.page)
    /\ SelectSeq(call.page, Plain) = SelectSeq(lcdbuf, Plain)

(***************************************************************************)
(* The visitor table, its invariants (SpecRegistry).                       *)
(***************************************************************************)
\* No two occupied slots hold the same address.
UniqueAddresses(tab) ==
    \A i, j \in Slots :
        (i # j /\ tab[i].count > 0 /\ tab[j].count > 0) =>
            tab[i].ip_address # tab[j].ip_address

\* C21: no two occupied slots of the table hold the same address; and a call
\* that does not replace the record of an address leaves that address its
\* record with a count not less than before.
C21_UniqueAddressCountMonotone ==
    /\ UniqueAddresses(clients)
    /\ [][ /\ UniqueAddresses(clients')
           /\ \A ip \in Peers : \A i \in SlotsOf(ip) :
                (clients[i].count > 0 /\ ~(Called /\ call'.evicted = ip)) =>
                    /\ clients'[i].ip_address = ip
                    /\ clients'[i].count >= clients[i].count
       ]_vars

\* The table is full, and the call has served the record of an address that
\* was there before, next to the record of another address.
C21_Witness ==
    /\ call.active /\ call.cl.ip # NoAddr /\ call.evicted = NoAddr
    /\ call.req # "REQ_FAVICON"
    /\ \A i \in Slots : clients[i].count > 0
    /\ clients[current_client].ip_address = call.cl.ip
    /\ clients[current_client].count = MaxCount

(***************************************************************************)
(* The output loops (SpecWrite, SpecWriteFair).                            *)
(***************************************************************************)
\* All buffers of the job have been through client_write().
BuffersDone == wr.pc \in {"drain", "read", "stop", "returned"}

\* C22: every write() asks for at most CHUNKSIZE bytes and comes after a test
\* of connected() that found the client connected; the bytes the transport
\* has accepted are the bytes of the job from its first on, in order, none
\* twice and none left out, and they are all the bytes of the job when its
\* buffers are done and connected() was never found false; once connected()
\* was found false no further byte is accepted.
C22_ChunkedCheckedInOrder ==
    /\ wr.last.asked <= CHUNKSIZE
    /\ wr.last.checked
    /\ wr.last.done <= wr.last.asked
    /\ wr.inorder
    /\ (BuffersDone /\ wr.frozen < 0) => wr.wire = wr.total
    /\ wr.frozen >= 0 => wr.wire = wr.frozen

\* A job of several buffers, the last longer than two chunks, sent in full by
\* writes of which one was partial.
C22_Witness ==
    /\ wr.pc = "returned" /\ wr.frozen < 0
    /\ wr.total > 2 * CHUNKSIZE /\ wr.wire = wr.total
    /\ wr.last.done > 0 /\ wr.last.done < CHUNKSIZE \div 2

\* A job cut short: connected() found false after part of it was sent.
C22_WitnessClosed ==
    /\ wr.pc = "returned" /\ wr.frozen > 0 /\ wr.frozen < wr.total

\* C23: every job that is started comes to its end: client_write() returns
\* and the loop that reads the answer of the notification server is left,
\* whatever the transport and the peer do.
C23_EveryLoopEnds == (wr.pc = "while") ~> (wr.pc = "returned")

\* The write loop alone: it is left whenever it is entered.
C23_WriteLoopEnds == (wr.pc = "while") ~> BuffersDone

\* The loop that reads the answer: it is left whenever it is entered.
C23_DrainLoopEnds == (wr.pc = "drain") ~> (wr.pc \in {"stop", "returned"})

(***************************************************************************)
(* Long lines (SpecLine).                                                  *)
(***************************************************************************)
\* The lines of a request with every line cut to its first MAXLINE - 1 bytes.
Cut(lines) == [i \in 1 .. Len(lines) |-> [lines[i] EXCEPT !.x = << >>]]
HasLong(lines) == \E i \in 1 .. Len(lines) : lines[i].x # << >>

\* C24: a request with a line of more than MAXLINE - 1 bytes is given a type
\* and an answer, and its type is the one of the same request with that line
\* cut to its first MAXLINE - 1 bytes: the bytes beyond take no part.
C24_LongLineTruncated ==
    (call.active /\ call.cl # NoClient /\ HasLong(call.cl.lines)) =>
        /\ call.req \in request_type_t
        /\ call.rsp \in response_type_t
        /\ call.req = read_header(Cut(call.cl.lines), "REQ_UNKNOWN").req

\* A request whose long first line is the route line: typed by its first bytes.
C24_Witness ==
    /\ call.active /\ call.cl # NoClient
    /\ call.cl.lines[1].x # << >> /\ call.cl.lines[1].k = "GET_LOG"
    /\ call.req = "REQ_LOG" /\ call.rsp = "RSP_LOG"

(***************************************************************************)
(* The deadline of the delayed response and the wrap of millis()           *)
(* (SpecHttp).                                                             *)
(***************************************************************************)
\* Less than DELAYED_RSP_MSEC has passed since the delayed response was armed:
\* delayed_sendtime is ahead of millis() by some steps of the clock.
NotYetDue ==
    \E k \in 1 .. (DELAYED_RSP_MSEC \div MsStep) : U32Add(millis, k * MsStep) = delayed_sendtime

\* The delayed response was armed so close to the wrap of millis() that
\* delayed_sendtime is past it.
ArmedAcrossWrap == delayed_sendtime < U32(DELAYED_RSP_MSEC)

\* C25: a call made while a delayed response is armed and less than
\* DELAYED_RSP_MSEC has passed since the arming generates no response and
\* leaves it armed; a call made with power present after more than
\* DELAYED_RSP_MSEC has passed generates the status response; and this for
\* armings at any value of millis(), those next to its wrap included.
C25_DeadlineAcrossWrap ==
    [][ (Called /\ web_status = WEB_PROCESSING_REQUEST /\ delayed_response) =>
          /\ NotYetDue =>
                /\ call'.rsp = "-"
                /\ delayed_response' /\ web_status' = WEB_PROCESSING_REQUEST
          /\ PastDeadline =>
                /\ call'.rsp = "RSP_STATUS"
                /\ ~delayed_response' /\ web_status' = WEB_AWAITING_CLIENT
      ]_vars

\* Away from the wrap the deadline is kept: the response armed at millis() = 0
\* is generated by a call made after DELAYED_RSP_MSEC and not before.
C25_AwayFromWrap ==
    [][ (Called /\ web_status = WEB_PROCESSING_REQUEST /\ delayed_response
                /\ ~ArmedAcrossWrap /\ delayed_sendtime < U32Max - (MaxMsTicks + 1) * MsStep) =>
          /\ NotYetDue => call'.rsp = "-"
          /\ PastDeadline => call'.rsp = "RSP_STATUS"
      ]_vars

\* A response armed within DELAYED_RSP_MSEC of the wrap, generated before its
\* time.
C25_Witness ==
    /\ call.active /\ call.cl = NoClient /\ call.rsp = "RSP_STATUS"
    /\ ArmedAcrossWrap /\ NotYetDue

(***************************************************************************)
(* One send for each trigger (Spec).                                       *)
(***************************************************************************)
\* How many times log_event() was given the event ev.
Logged(seq, ev) == Cardinality({i \in 1 .. Len(seq) : seq[i].event_type = ev})

\* C26: a call sends a notification only when it finds ifttt_do_trigger set,
\* it makes one attempt, and it returns with the flag cleared, whether the
\* connection was refused, dropped or the request transferred; a call that
\* finds the flag clear makes no attempt.  The flag is set by the main
\* program alone, so no trigger is sent twice.
C26_OneSendPerTrigger ==
    [][ Called =>
          /\ Sending =>
                /\ ifttt_do_trigger /\ ~ifttt_do_trigger'
                /\ Logged(appended', EV_IFTTT_SENDING) = Logged(appended, EV_IFTTT_SENDING) + 1
          /\ ~ifttt_do_trigger =>
                /\ ~Sending /\ ~ifttt_do_trigger'
                /\ "client.connect" \notin call'.net
          /\ ~Sending => ifttt_do_trigger' = ifttt_do_trigger
      ]_vars

\* A send that was refused, with the flag cleared all the same.
C26_Witness ==
    /\ call.active /\ call.out = "refused"
    /\ ~ifttt_do_trigger
    /\ appended[Len(appended)].event_type = EV_IFTTT_FAILED

(***************************************************************************)
(* Calls without power (SpecPower).                                        *)
(***************************************************************************)
\* Power is absent, or came back no more than POWER_ON_WEB_DELAY_SECS ago.
NoPowerYet(pw) == ~pw \/ now - last_poweron_time <= POWER_ON_WEB_DELAY_SECS

\* C27: a call of process_web() made without power, or within
\* POWER_ON_WEB_DELAY_SECS of the last power-on, changes nothing of the
\* program's state (state, attempt counter, retry time, wifi counters, visitor
\* table, pending response, trigger flag, event log, connection) and calls no
\* network primitive, whatever the network reports and whether or not a
\* client waits: an armed response stays armed in WEB_PROCESSING_REQUEST.
C27_NoPowerNoEffect ==
    [][ \A pw \in BOOLEAN, wl \in WLStatus, cl \in {NoClient} \cup NetRequests, o \in Outbound :
          (NoPowerYet(pw) /\ ProcessWeb(pw, wl, cl, o.cok, o.xfer))
             => /\ UNCHANGED Program
                /\ call'.net = {}
                /\ call'.rsp = "-" /\ call'.out = "-"
      ]_vars

\* A call made within the wait after power came back, with the response
\* armed and its time past: it stays armed.
C27_Witness ==
    /\ call.active
    /\ now - last_poweron_time <= POWER_ON_WEB_DELAY_SECS
    /\ web_status = WEB_PROCESSING_REQUEST /\ delayed_response
    /\ PastDeadline

(***************************************************************************)
(* Who is marked authorized (SpecRegistry).                                *)
(***************************************************************************)
\* The request cl carries a pwd line whose value is the secret.
CarriesSecret(cl) ==
    \E j \in PwdLines(cl) : BodyLines(cl)[j].s = ACTION_PASSWORD

\* The record in slot i is marked in this step, or is marked and was made in
\* this step for another address.
Marked(i) ==
    /\ clients'[i].gave_password
    /\ ~clients[i].gave_password \/ clients'[i].ip_address # clients[i].ip_address

\* C28: a record comes to be marked authorized only in a call that serves a
\* setpass request from the address of that record carrying the secret
\* exactly; so a record made for a new address is unmarked, whatever the
\* record it replaces was, unless that same request is such a setpass; and
\* an empty slot is never marked.
C28_AuthorizedOnlyBySecret ==
    [][ \A i \in Slots :
          /\ Marked(i) =>
                /\ Called /\ call'.req = "REQ_SETPASS"
                /\ call'.cl.ip = clients'[i].ip_address
                /\ current_client' = i
                /\ CarriesSecret(call'.cl)
          /\ clients[i].ip_address = NoAddr => ~clients[i].gave_password
      ]_vars

\* A new address takes the slot of an evicted record and is marked in the
\* same call, by its setpass request with the secret; the other record is
\* not marked.
C28_Witness ==
    /\ call.active /\ call.evicted # NoAddr
    /\ call.req = "REQ_SETPASS"
    /\ clients[current_client].gave_password
    /\ \A i \in Slots \ {current_client} : ~clients[i].gave_password

(***************************************************************************)
(* The mark is kept (SpecRegistry).                                        *)
(***************************************************************************)
\* The record in slot i is the record of the same address after the step.
SameRecord(i) == clients'[i].ip_address = clients[i].ip_address

\* C30: a call that serves a setpass request without the secret, or a
\* request of any other type, changes the gave_password of no record that
\* stays in the table, and marks no record it makes; no step at all takes
\* the mark from a record: a marked record stays marked until its slot is
\* given to another address.
C30_MarkKeptUntilEvicted ==
    [][ /\ (Called /\ (call'.req # "REQ_SETPASS" \/ ~CarriesSecret(call'.cl))) =>
              \A i \in Slots :
                 /\ SameRecord(i) => clients'[i].gave_password = clients[i].gave_password
                 /\ ~SameRecord(i) => ~clients'[i].gave_password
        /\ \A i \in Slots :
              (clients[i].gave_password /\ SameRecord(i)) => clients'[i].gave_password
      ]_vars

\* A marked peer has sent a setpass request with a wrong value: it is asked
\* for the password and is still marked.
C30_Witness ==
    /\ call.active /\ call.req = "REQ_SETPASS"
    /\ PwdLines(call.cl) # {} /\ ~CarriesSecret(call.cl)
    /\ call.rsp = "RSP_ASKPASS"
    /\ clients[current_client].ip_address = call.cl.ip
    /\ clients[current_client].gave_password

(***************************************************************************)
(* One client at a time (Spec).                                            *)
(***************************************************************************)
\* What a call does to the connection of the client it is serving.
ClientPrimitives == {"client.write", "client.read", "client.stop"}

\* C29: a call of process_web() made in WEB_PROCESSING_REQUEST, whatever
\* power and the reported status are and whether or not a trigger is
\* pending, does not poll the server for a client (so it accepts none,
\* waiting or not), serves no request, sends no notification, does not read
\* the association status and leaves the visitor table, the counters and the
\* trigger flag alone.  Either it changes nothing, or it generates the
\* deferred status response, disarms it and leaves the state
\* WEB_AWAITING_CLIENT.
C29_ProcessingServesNoOther ==
    [][ (Called /\ web_status = WEB_PROCESSING_REQUEST) =>
             /\ call'.net \subseteq ClientPrimitives
             /\ call'.cl = NoClient /\ call'.req = "-" /\ call'.out = "-"
             /\ UNCHANGED << clients, current_client, requests_processed, ifttt_do_trigger,
                             button_webpushed, delayed_sendtime, connect_attempts,
                             next_connect_time, wifi_connects, wifi_connectfails,
                             wifi_disconnects, wifi_resets, logfile_hdr, logfile, appended >>
             /\ \/ /\ web_status' = WEB_PROCESSING_REQUEST /\ delayed_response'
                   /\ call'.rsp = "-" /\ call'.net = {}
                   /\ UNCHANGED client
                \/ /\ web_status' = WEB_AWAITING_CLIENT /\ ~delayed_response'
                   /\ call'.rsp = "RSP_STATUS"
      ]_vars

\* The deferred response generated by a call that found a trigger pending:
\* the trigger is still pending and nothing but the response was done.
C29_Witness ==
    /\ call.active /\ call.cl = NoClient /\ call.rsp = "RSP_STATUS"
    /\ web_status = WEB_AWAITING_CLIENT /\ ~delayed_response
    /\ ifttt_do_trigger
    /\ call.out = "-" /\ call.net \subseteq ClientPrimitives

====
